---- MODULE Spec2Model ----
(***************************************************************************)
(* Model of the AI news agent: the pipeline scheduler                      *)
(* (src/src/scheduler/tasks.py), the relevance classifier                  *)
(* (src/src/filtering/ai_classifier.py), the store                         *)
(* (src/src/storage/database.py), the feed fetcher                         *)
(* (src/src/ingestion/rss_fetcher.py) and the Telegram notifier            *)
(* (src/src/notification/telegram.py).                                     *)
(*                                                                         *)
(* All coroutines run on one asyncio event loop: a coroutine runs until    *)
(* its next await that really suspends.  The variable "running" names the  *)
(* coroutine that is in the middle of such a synchronous segment; nothing  *)
(* else moves until it suspends.                                           *)
(***************************************************************************)
EXTENDS Integers, Sequences, FiniteSets, TLC

\* ------------------------------------------------------------------ bounds
MaxFeed == 2          \* longest raw feed (before URL de-duplication)
MaxFires == 1         \* interval-trigger firings explored
MaxTitleLen == 3      \* classifier probe: longest title
MaxSummaryLen == 1    \* classifier probe: longest feed summary
MaxClock == 2         \* subscription commands: latest instant explored
MaxCommands == 4      \* subscription commands: commands in one run

\* ------------------------------------------------------- program constants
ai_relevance_threshold == 85
verification_threshold == 70
max_articles_per_cycle == 500
VerifiedCutoff == 90

NULL_TS == 0 - 1      \* a DateTime column holding NULL
NoSummary == <<>>     \* Article.summary holding NULL
NoArticle == 0        \* no ORM object bound yet

\* ------------------------------------------------------------ text values
\* A text is a sequence of one-character strings.
Alphabet == {"G", "g", "P", "p", "T", " "}

Lower(ch) ==
    CASE ch = "G" -> "g"
      [] ch = "P" -> "p"
      [] ch = "T" -> "t"
      [] OTHER -> ch

\* str.lower()
LowerStr(s) == [i \in 1..Len(s) |-> Lower(s[i])]

\* the Python operator "kw in text" on strings
Contains(text, kw) ==
    \E i \in 1..(Len(text) + 1) :
        /\ i + Len(kw) - 1 <= Len(text)
        /\ SubSeq(text, i, i + Len(kw) - 1) = kw

\* self.keywords: a configuration of the shape of _default_keywords, with
\* upper-case entries and one entry that holds a space.
keywords ==
    [primary   |-> << <<"G", "P", "T">> >>,
     companies |-> << <<"T", "g">> >>,
     topics    |-> << <<"p", " ", "T">> >>]

\* f"{title} {summary}".lower()
PrefilterText(article) == LowerStr(article.title \o <<" ">> \o article.summary)

keyword_prefilter(article) ==
    LET text == PrefilterText(article) IN
    IF \E k \in 1..Len(keywords.primary) :
           Contains(text, LowerStr(keywords.primary[k]))
    THEN TRUE
    ELSE IF \E k \in 1..Len(keywords.companies) :
           Contains(text, LowerStr(keywords.companies[k]))
    THEN TRUE
    ELSE IF \E k \in 1..Len(keywords.topics) :
           Contains(text, LowerStr(keywords.topics[k]))
    THEN TRUE
    ELSE FALSE

\* ---------------------------------------------------- external judgment
\* What one call to the external model can produce: a parsed verdict, a
\* response that is not JSON, or a transport error.
Confidences == {84, 85, 101}

GeminiOutcomes ==
    [kind : {"verdict"}, relevant : BOOLEAN, confidence : Confidences,
     reasoning : {"about AI"}]
    \cup {[kind |-> "parse", relevant |-> FALSE, confidence |-> 0,
           reasoning |-> ""],
          [kind |-> "transport", relevant |-> FALSE, confidence |-> 0,
           reasoning |-> ""]}

\* classify_with_gemini with one except clause for every failure
classify_with_gemini_OneReason(article, outcome) ==
    IF outcome.kind = "verdict"
    THEN [is_relevant |-> outcome.relevant,
          confidence  |-> outcome.confidence,
          reasoning   |-> outcome.reasoning]
    ELSE [is_relevant |-> FALSE, confidence |-> 0,
          reasoning |-> "Error: timeout"]

classify_with_gemini(article, outcome) ==
    IF outcome.kind = "verdict"
    THEN [is_relevant |-> outcome.relevant,
          confidence  |-> outcome.confidence,
          reasoning   |-> outcome.reasoning]
    ELSE IF outcome.kind = "parse"
    THEN [is_relevant |-> FALSE, confidence |-> 0,
          reasoning |-> "JSON parse error"]
    ELSE [is_relevant |-> FALSE, confidence |-> 0,
          reasoning |-> "Error: timeout"]

\* is_ai_relevant with the prefilter stage left out
is_ai_relevant_NoPrefilter(article, outcome) ==
    LET v == classify_with_gemini(article, outcome) IN
    IF v.is_relevant /\ v.confidence >= ai_relevance_threshold
    THEN [is_relevant |-> TRUE, confidence |-> v.confidence,
          reasoning |-> v.reasoning, gemini |-> TRUE]
    ELSE [is_relevant |-> FALSE, confidence |-> v.confidence,
          reasoning |-> v.reasoning, gemini |-> TRUE]

\* is_ai_relevant accepting whatever the external verdict calls relevant
is_ai_relevant_NoThreshold(article, outcome) ==
    IF ~keyword_prefilter(article)
    THEN [is_relevant |-> FALSE, confidence |-> 0,
          reasoning |-> "No AI keywords found", gemini |-> FALSE]
    ELSE LET v == classify_with_gemini(article, outcome) IN
         [is_relevant |-> v.is_relevant, confidence |-> v.confidence,
          reasoning |-> v.reasoning, gemini |-> TRUE]

\* The field "gemini" records whether stage 2 (the external call) ran.
is_ai_relevant(article, outcome) ==
    IF ~keyword_prefilter(article)
    THEN [is_relevant |-> FALSE, confidence |-> 0,
          reasoning |-> "No AI keywords found", gemini |-> FALSE]
    ELSE LET v == classify_with_gemini(article, outcome) IN
         IF v.is_relevant /\ v.confidence >= ai_relevance_threshold
         THEN [is_relevant |-> TRUE, confidence |-> v.confidence,
               reasoning |-> v.reasoning, gemini |-> TRUE]
         ELSE [is_relevant |-> FALSE, confidence |-> v.confidence,
               reasoning |-> v.reasoning, gemini |-> TRUE]

\* ------------------------------------------------------------- the feed
URLS == {"u1", "u2"}

\* The candidate item the fetcher builds for a feed entry (fetch_from_source).
\* u1 names a keyword in another case;
\* u2 names none.  credibility is the source's configured score.
ItemOf(u) ==
    IF u = "u1"
    THEN [url |-> u, title |-> <<"g", "P", "T">>, summary |-> <<>>,
          credibility |-> 80]
    ELSE [url |-> u, title |-> <<"P", "T">>, summary |-> <<"g">>,
          credibility |-> 95]

\* What the sources deliver in one fetch, before de-duplication.
RawFeeds == UNION {[1..n -> URLS] : n \in 0..MaxFeed}

RECURSIVE UniqueByUrl(_, _)
UniqueByUrl(all_articles, seen_urls) ==
    IF all_articles = <<>> THEN <<>>
    ELSE IF Head(all_articles) \in seen_urls
         THEN UniqueByUrl(Tail(all_articles), seen_urls)
         ELSE <<Head(all_articles)>>
              \o UniqueByUrl(Tail(all_articles),
                             seen_urls \cup {Head(all_articles)})

fetch_all(raw) == UniqueByUrl(raw, {})

Min(a, b) == IF a <= b THEN a ELSE b

\* "for ... in enumerate(articles, 1)": the slice is left out
LoopLenCap_NoSlice(fetchedList, cap) == Len(fetchedList)

\* len(articles[:cap]) for a configured cap
LoopLenCap(fetchedList, cap) == Min(Len(fetchedList), cap)

\* len(articles[:settings.max_articles_per_cycle])
LoopLen(fetchedList) == LoopLenCap(fetchedList, max_articles_per_cycle)

\* -------------------------------------------------------------- the store
\* db.query(Article).filter(Article.url == url).first()
ExistsByUrl_Never(rows, url) == FALSE

ExistsByUrl(rows, url) == \E i \in 1..Len(rows) : rows[i].url = url

\* The UNIQUE constraint on articles.url: an INSERT of a second row with the
\* same url makes the commit raise.
UniqueViolation(rows, url) == \E i \in 1..Len(rows) : rows[i].url = url

\* Article(...) with the url column filled from the wrong key
NewArticle_WrongUrl(article_data, is_relevant, confidence, reasoning) ==
    [url |-> "",
     is_ai_relevant |-> is_relevant,
     ai_confidence |-> confidence,
     credibility_score |-> article_data.credibility,
     is_verified |-> (article_data.credibility >= VerifiedCutoff),
     verification_reason |-> reasoning,
     summary |-> NoSummary,
     notification_sent |-> FALSE,
     sent_at |-> NULL_TS]

\* Article(...) with the confidence column left at its default
NewArticle_NoConfidence(article_data, is_relevant, confidence, reasoning) ==
    [url |-> article_data.url,
     is_ai_relevant |-> is_relevant,
     ai_confidence |-> 0,
     credibility_score |-> article_data.credibility,
     is_verified |-> (article_data.credibility >= VerifiedCutoff),
     verification_reason |-> reasoning,
     summary |-> NoSummary,
     notification_sent |-> FALSE,
     sent_at |-> NULL_TS]

\* The Article row process_single_article builds.  Every fetched item carries
\* a credibility, so the .get defaults (80 and 0) are never taken.
NewArticle(article_data, is_relevant, confidence, reasoning) ==
    [url |-> article_data.url,
     is_ai_relevant |-> is_relevant,
     ai_confidence |-> confidence,
     credibility_score |-> article_data.credibility,
     is_verified |-> (article_data.credibility >= VerifiedCutoff),
     verification_reason |-> reasoning,
     summary |-> NoSummary,
     notification_sent |-> FALSE,
     sent_at |-> NULL_TS]

\* the summary is set on the object but its commit is left out
SetSummary_Lost(rows, id, text) == rows

\* article.summary = ... ; db.commit()
SetSummary(rows, id, text) == [rows EXCEPT ![id].summary = text]

\* article.notification_sent = True ; db.commit(), sent_at left unset
SetSent_NoTimestamp(rows, id, ts) ==
    [rows EXCEPT ![id].notification_sent = TRUE]

\* an UPDATE that misses its WHERE clause
SetSent_AllRows(rows, id, ts) ==
    [i \in 1..Len(rows) |->
        [rows[i] EXCEPT !.notification_sent = TRUE, !.sent_at = ts]]

\* article.notification_sent = True ; article.sent_at = utcnow() ; db.commit()
SetSent(rows, id, ts) ==
    [rows EXCEPT ![id].notification_sent = TRUE, ![id].sent_at = ts]

\* ----------------------------------------------------------- summarizer
\* What one call to the external model can give NewsSummarizer.summarize: a
\* JSON object with both keys, a JSON object without them, JSON that is not
\* an object, text that is not JSON, or a transport error.
SummaryOutcomes == {"object", "no_keys", "not_object", "parse", "transport"}

\* the headline and the explanation the external model writes
ModelHeadline == <<"h">>
ModelWhy == "why it matters"

\* summarize whose last except clause is missing: nothing is returned
summarize_ParseOnly(article_data, outcome) ==
    IF outcome = "object"
    THEN <<ModelHeadline, ModelWhy>>
    ELSE IF outcome = "no_keys"
    THEN <<article_data.title, "Significant development in AI.">>
    ELSE IF outcome = "parse"
    THEN <<article_data.title, "Significant development in the AI field.">>
    ELSE <<>>

\* NewsSummarizer.summarize: the pair (headline, why_matters).  result.get
\* fills in an absent key; JSONDecodeError and every other exception (a
\* transport error, result.get on something that is no object) give the
\* fallback.
summarize(article_data, outcome) ==
    IF outcome = "object"
    THEN <<ModelHeadline, ModelWhy>>
    ELSE IF outcome = "no_keys"
    THEN <<article_data.title, "Significant development in AI.">>
    ELSE <<article_data.title, "Significant development in the AI field.">>

\* ---------------------------------------------------------- subscribers
ChatIds == {"c1", "c2"}

HasSubscriber(rows, chat_id) == \E i \in 1..Len(rows) : rows[i].chat_id = chat_id

SubscriberIndex(rows, chat_id) ==
    CHOOSE i \in 1..Len(rows) : rows[i].chat_id = chat_id

\* the query without its filter
ActiveSubscribers_All(rows) == {rows[i].chat_id : i \in 1..Len(rows)}

\* db.query(Subscriber).filter(Subscriber.is_active == True).all()
ActiveSubscribers(rows) ==
    {rows[i].chat_id : i \in {j \in 1..Len(rows) : rows[j].is_active}}

\* What asyncio.gather can hand back for the sends to "recipients": each
\* send_news_notification returns True or False on its own (for the digest:
\* a message, or the exception of that send).
SendResults(recipients) == [recipients -> BOOLEAN]

\* a gather in which the first failing send makes the whole broadcast fail
sum_results_AllOrNothing(results) ==
    IF \E r \in DOMAIN results : ~results[r] THEN 0
    ELSE Cardinality(DOMAIN results)

\* success_count = sum(results)
sum_results(results) == Cardinality({r \in DOMAIN results : results[r]})

\* the loop counting the results that are not exceptions (digest)
count_not_exception(results) ==
    Cardinality({r \in DOMAIN results : results[r]})

\* ================================================================ state
Procs == {"startup", "job"}   \* the create_task run and the scheduled job

VARIABLES
    articles,       \* table articles: sequence of rows, id = position
    subscribers,    \* table subscribers: sequence of rows
    now,            \* datetime.utcnow() (the pipeline is explored at one instant)
    started,        \* NewsAgentScheduler.start has run (scheduler running)
    fires,          \* how often the interval trigger has fired
    running,        \* coroutine inside a synchronous segment, or "none"
    pc,             \* position of each run_news_pipeline coroutine
    fetched,        \* its local "articles" (result of fetch_all)
    idx,            \* its loop index i
    sent_count,     \* its local sent_count
    notified,       \* history: per coroutine, the items of its cycle for
                    \*   which at least one send succeeded
    loc,            \* locals of its current process_single_article call,
                    \*   with two history fields: "external", what the
                    \*   external judgment call produced, "delivered", the
                    \*   subscribers whose send returned True, and
                    \*   "summarizer", what the summarizer's call produced
    committed,      \* history: urls whose INSERT was committed
    calls,          \* history: urls given to is_ai_relevant; per url, the
                    \*   number of broadcast_news calls
    lastRun,        \* history: the candidates of the run that completed last
    rerunOf,        \* history: per coroutine, rows in the store when it
                    \*   began to repeat the last run alone (else NotRerun)
    probe           \* classifier probe: one item, one outcome, the result

vars == <<articles, subscribers, now, started, fires, running, pc, fetched,
          idx, sent_count, notified, loc, committed, calls, lastRun, rerunOf,
          probe>>

InitLoc ==
    [is_relevant |-> FALSE, confidence |-> 0, reasoning |-> "",
     article |-> NoArticle, summary |-> NoSummary, recipients |-> {},
     success_count |-> 0, broadcast |-> FALSE, was_sent |-> FALSE,
     failed |-> FALSE, external |-> "none", delivered |-> {},
     summarizer |-> "none"]

NoCalls == [u \in URLS |-> 0]
NotRerun == 0 - 1
NoLastRun == [valid |-> FALSE, fetched |-> <<>>]
NoProbe == [title |-> <<>>, summary |-> <<>>, done |-> FALSE,
            outcome |-> [kind |-> "parse", relevant |-> FALSE,
                         confidence |-> 0, reasoning |-> ""],
            result |-> [is_relevant |-> FALSE, confidence |-> 0,
                        reasoning |-> "", gemini |-> FALSE]]

\* nothing runs yet
InitIdle ==
    /\ started = FALSE
    /\ fires = 0
    /\ running = "none"
    /\ pc = [c \in Procs |-> "idle"]
    /\ fetched = [c \in Procs |-> <<>>]
    /\ idx = [c \in Procs |-> 0]
    /\ sent_count = [c \in Procs |-> 0]
    /\ notified = [c \in Procs |-> 0]
    /\ loc = [c \in Procs |-> InitLoc]
    /\ committed = {}
    /\ calls = [classified |-> {}, broadcast |-> NoCalls]
    /\ lastRun = NoLastRun
    /\ rerunOf = [c \in Procs |-> NotRerun]

InitMain ==
    /\ articles = <<>>
    /\ subscribers = <<>>
    /\ now = 0
    /\ InitIdle

Init == InitMain /\ probe = NoProbe

\* the url of the item coroutine c is processing
Cur(c) == fetched[c][idx[c]]

Active(c) == pc[c] # "idle"

Bump(f, u) == [f EXCEPT ![u] = @ + 1]

\* ------------------------------------------------ NewsAgentScheduler.start
\* asyncio.create_task(self.run_news_pipeline()), add_job, scheduler.start()
Start ==
    /\ ~started
    /\ running = "none"
    /\ started' = TRUE
    /\ pc' = [pc EXCEPT !["startup"] = "fetch"]
    /\ rerunOf' = [c \in Procs |-> NotRerun]
    /\ UNCHANGED <<articles, subscribers, now, fires, running, fetched, idx,
                   sent_count, notified, loc, committed, calls, lastRun, probe>>

\* The IntervalTrigger fires.  The job keeps the scheduler's default of one
\* running instance: a firing while the previous instance still runs is
\* skipped.  The task made by create_task is not an instance of the job.
IntervalFireCap(limit) ==
    /\ started
    /\ running = "none"
    /\ fires < limit
    /\ fires' = fires + 1
    /\ IF pc["job"] = "idle"
       THEN /\ pc' = [pc EXCEPT !["job"] = "fetch"]
            /\ rerunOf' = [c \in Procs |-> NotRerun]
       ELSE UNCHANGED <<pc, rerunOf>>
    /\ UNCHANGED <<articles, subscribers, now, started, running, fetched, idx,
                   sent_count, notified, loc, committed, calls, lastRun, probe>>

\* the firings explored in the pipeline
IntervalFire == IntervalFireCap(MaxFires)

\* ------------------------------------------------------ run_news_pipeline
\* "except Exception as e: ... raise": the exception leaves the coroutine
PipelineErrorTarget_Propagate == "raised"

\* Where the coroutine is after "except Exception as e: print(...)": it has
\* returned, as after a complete run.
PipelineErrorTarget == "idle"

\* The coroutine returns: normally (completed) or through its except clause.
Finish(c, completed, candidates) ==
    /\ pc' = [pc EXCEPT ![c] = IF completed THEN "idle"
                                ELSE PipelineErrorTarget]
    /\ running' = "none"
    /\ fetched' = [fetched EXCEPT ![c] = <<>>]
    /\ idx' = [idx EXCEPT ![c] = 0]
    /\ sent_count' = [sent_count EXCEPT ![c] = 0]
    /\ notified' = [notified EXCEPT ![c] = 0]
    /\ loc' = [loc EXCEPT ![c] = InitLoc]
    /\ lastRun' = IF completed
                  THEN [valid |-> TRUE, fetched |-> candidates]
                  ELSE NoLastRun

\* articles = self.rss_fetcher.fetch_all(); "if not articles: return"
Fetch(c) ==
    /\ pc[c] = "fetch"
    /\ running = "none"
    /\ \/ \E raw \in RawFeeds :
            IF fetch_all(raw) = <<>>
            THEN /\ Finish(c, TRUE, <<>>)
                 /\ UNCHANGED rerunOf
            ELSE /\ fetched' = [fetched EXCEPT ![c] = fetch_all(raw)]
                 /\ pc' = [pc EXCEPT ![c] = "check"]
                 /\ running' = c
                 /\ idx' = [idx EXCEPT ![c] = 1]
                 /\ sent_count' = [sent_count EXCEPT ![c] = 0]
                 /\ notified' = [notified EXCEPT ![c] = 0]
                 /\ loc' = [loc EXCEPT ![c] = InitLoc]
                 /\ rerunOf' =
                      [rerunOf EXCEPT ![c] =
                         IF /\ lastRun.valid
                            /\ lastRun.fetched = fetch_all(raw)
                            /\ \A d \in Procs \ {c} : ~Active(d)
                         THEN Len(articles)
                         ELSE NotRerun]
                 /\ UNCHANGED lastRun
       \/ \* fetch_all raises: "Pipeline error"
          /\ Finish(c, FALSE, <<>>)
          /\ UNCHANGED rerunOf
    /\ UNCHANGED <<articles, subscribers, now, started, fires, committed,
                   calls, probe>>

\* --------------------------------------------------- process_single_article
\* Where control goes when the call returns False from "except Exception":
\* back into the loop of run_news_pipeline, at its asyncio.sleep.
HandlerTarget_Abort == "idle"

HandlerTarget == "sleep"

\* "except Exception as e: ... return False"
Raise(c) ==
    /\ loc' = [loc EXCEPT ![c].was_sent = FALSE, ![c].failed = TRUE]
    /\ pc' = [pc EXCEPT ![c] = HandlerTarget]
    /\ running' = IF HandlerTarget = "idle" THEN "none" ELSE c

\* "is_relevant, ... = await self.ai_filter.is_ai_relevant(article_data)":
\* the call is suspended before the record is created
AwaitedStages_Classifier == {"create"}

\* The positions inside process_single_article that are reached through an
\* await which suspends the coroutine.  The query, the classifier, the
\* summarizer and the commits are plain calls; the one await of the call,
\* broadcast_news, is modelled by BroadcastStart and BroadcastGather.
AwaitedStages == {}

\* the coroutine c is the one the event loop runs at this position
Holds(c, stage) ==
    IF stage \in AwaitedStages THEN running = "none" ELSE running = c

\* the call goes on (or returns) without raising
Goto(c, target, locals) ==
    /\ loc' = [loc EXCEPT ![c] = locals]
    /\ pc' = [pc EXCEPT ![c] = target]
    /\ running' = IF target \in AwaitedStages THEN "none" ELSE c

\* "if existing: return False", else on to step 1
AfterCheck(existing) == IF existing THEN "sleep" ELSE "classify"

\* existing = db.query(Article).filter(Article.url == url).first()
CheckExisting(c) ==
    /\ pc[c] = "check"
    /\ running = c
    /\ \/ Goto(c, AfterCheck(ExistsByUrl(articles, Cur(c))), loc[c])
       \/ Raise(c)      \* the query raises
    /\ UNCHANGED <<articles, subscribers, now, started, fires, fetched, idx,
                   sent_count, notified, committed, calls, lastRun, rerunOf, probe>>

\* The outcomes of the external call explored in the pipeline.
PipelineOutcomes ==
    {[kind |-> "verdict", relevant |-> TRUE, confidence |-> 85,
      reasoning |-> "about AI"],
     [kind |-> "verdict", relevant |-> FALSE, confidence |-> 101,
      reasoning |-> "about AI"],
     [kind |-> "parse", relevant |-> FALSE, confidence |-> 0,
      reasoning |-> ""]}

\* is_relevant, confidence, reasoning = self.ai_filter.is_ai_relevant(...),
\* the external call producing one of "outcomes"
ClassifyAmong(c, outcomes) ==
    /\ pc[c] = "classify"
    /\ Holds(c, "classify")
    /\ \E o \in outcomes :
         LET r == is_ai_relevant(ItemOf(Cur(c)), o) IN
         Goto(c, "create",
              [loc[c] EXCEPT !.is_relevant = r.is_relevant,
                             !.confidence = r.confidence,
                             !.reasoning = r.reasoning,
                             !.external = IF r.gemini THEN o.kind
                                          ELSE "none"])
    /\ calls' = [calls EXCEPT !.classified = @ \cup {Cur(c)}]
    /\ UNCHANGED <<articles, subscribers, now, started, fires, fetched, idx,
                   sent_count, notified, committed, lastRun, rerunOf, probe>>

Classify(c) == ClassifyAmong(c, PipelineOutcomes)

\* "if not is_relevant: return False", else on to step 2
AfterCreate_NoGate(is_relevant) == "summarize"

AfterCreate(is_relevant) == IF ~is_relevant THEN "sleep" ELSE "summarize"

\* article = Article(...); db.add(article); db.commit()
CreateArticle(c) ==
    /\ pc[c] = "create"
    /\ Holds(c, "create")
    /\ \/ /\ ~UniqueViolation(articles, Cur(c))
          /\ articles' = Append(articles,
                                NewArticle(ItemOf(Cur(c)), loc[c].is_relevant,
                                           loc[c].confidence, loc[c].reasoning))
          /\ committed' = committed \cup {Cur(c)}
          /\ Goto(c, AfterCreate(loc[c].is_relevant),
                  [loc[c] EXCEPT !.article = Len(articles) + 1])
       \/ \* the commit raises (always so on a UNIQUE violation)
          /\ Raise(c)
          /\ UNCHANGED <<articles, committed>>
    /\ UNCHANGED <<subscribers, now, started, fires, fetched, idx, sent_count, notified,
                   calls, lastRun, rerunOf, probe>>

\* The outcomes of the summarizer's call explored in the pipeline.
PipelineSummaries == {"object", "parse"}

\* summary = self.summarizer.summarize(article_data), the external call
\* producing one of "outcomes"
SummarizeAmong(c, outcomes) ==
    /\ pc[c] = "summarize"
    /\ Holds(c, "summarize")
    /\ \E o \in outcomes :
         Goto(c, "update",
              [loc[c] EXCEPT !.summary = summarize(ItemOf(Cur(c)), o),
                             !.summarizer = o])
    /\ UNCHANGED <<articles, subscribers, now, started, fires, fetched, idx,
                   sent_count, notified, committed, calls, lastRun, rerunOf, probe>>

Summarize(c) == SummarizeAmong(c, PipelineSummaries)

\* article.summary = f"{headline}\n\n{why_matters}"; db.commit()
UpdateSummary(c) ==
    /\ pc[c] = "update"
    /\ Holds(c, "update")
    /\ \/ /\ articles' = SetSummary(articles, loc[c].article, loc[c].summary)
          /\ Goto(c, "broadcast", loc[c])
       \/ /\ Raise(c)
          /\ UNCHANGED articles
    /\ UNCHANGED <<subscribers, now, started, fires, fetched, idx, sent_count, notified,
                   committed, calls, lastRun, rerunOf, probe>>

\* broadcast_news up to its await: the active subscribers are read and one
\* send per subscriber is prepared.  asyncio.gather suspends only when there
\* is something to wait for; a failing query makes broadcast_news return 0.
BroadcastStart(c) ==
    /\ pc[c] = "broadcast"
    /\ Holds(c, "broadcast")
    /\ calls' = [calls EXCEPT !.broadcast = Bump(@, Cur(c))]
    /\ \E to \in {ActiveSubscribers(subscribers), {}} :
         /\ loc' = [loc EXCEPT ![c].recipients = to, ![c].broadcast = TRUE]
         /\ running' = IF to = {} THEN c ELSE "none"
    /\ pc' = [pc EXCEPT ![c] = "gather"]
    /\ UNCHANGED <<articles, subscribers, now, started, fires, fetched, idx,
                   sent_count, notified, committed, lastRun, rerunOf, probe>>

\* results = await asyncio.gather(*tasks); success_count = sum(results):
\* each send_news_notification returns True or False on its own.
BroadcastGather(c) ==
    /\ pc[c] = "gather"
    /\ running = IF loc[c].recipients = {} THEN c ELSE "none"
    /\ \E results \in SendResults(loc[c].recipients) :
         /\ Goto(c, "mark",
                 [loc[c] EXCEPT !.success_count = sum_results(results),
                                !.delivered = {r \in DOMAIN results : results[r]}])
         /\ notified' = [notified EXCEPT
                           ![c] = IF \E r \in DOMAIN results : results[r]
                                  THEN @ + 1 ELSE @]
    /\ UNCHANGED <<articles, subscribers, now, started, fires, fetched, idx,
                   sent_count, committed, calls, lastRun, rerunOf, probe>>

\* "if success_count > 0:" the article is flagged
ShouldMark_Always(success_count) == TRUE

ShouldMark(success_count) == success_count > 0

\* notification_sent = True; sent_at = utcnow(); db.commit(); return True
MarkSent(c) ==
    /\ pc[c] = "mark"
    /\ Holds(c, "mark")
    /\ IF ShouldMark(loc[c].success_count)
       THEN \/ /\ articles' = SetSent(articles, loc[c].article, now)
               /\ Goto(c, "sleep", [loc[c] EXCEPT !.was_sent = TRUE])
            \/ /\ Raise(c)
               /\ UNCHANGED articles
       ELSE /\ Goto(c, "sleep", loc[c])
            /\ UNCHANGED articles
    /\ UNCHANGED <<subscribers, now, started, fires, fetched, idx, sent_count, notified,
                   committed, calls, lastRun, rerunOf, probe>>

\* "sent_count += 1" for every item
CountSent_EveryItem(count, was_sent) == count + 1

\* "if was_sent: sent_count += 1"
CountSent(count, was_sent) == IF was_sent THEN count + 1 ELSE count

\* the count is updated and "await asyncio.sleep(2)" begins; the locals of
\* the finished call are gone.
Sleep(c) ==
    /\ pc[c] = "sleep"
    /\ Holds(c, "sleep")
    /\ sent_count' = [sent_count EXCEPT
                        ![c] = CountSent(@, loc[c].was_sent)]
    /\ loc' = [loc EXCEPT ![c] = InitLoc]
    /\ pc' = [pc EXCEPT ![c] = "sleeping"]
    /\ running' = "none"
    /\ UNCHANGED <<articles, subscribers, now, started, fires, fetched, idx,
                   notified, committed, calls, lastRun, rerunOf, probe>>

\* the sleep is over: the next item of the slice, or "Pipeline complete",
\* with settings.max_articles_per_cycle read as cap
WakeUpCap(c, cap) ==
    /\ pc[c] = "sleeping"
    /\ running = "none"
    /\ IF idx[c] < LoopLenCap(fetched[c], cap)
       THEN /\ idx' = [idx EXCEPT ![c] = @ + 1]
            /\ pc' = [pc EXCEPT ![c] = "check"]
            /\ running' = c
            /\ UNCHANGED <<fetched, sent_count, notified, loc, lastRun>>
       ELSE Finish(c, TRUE, fetched[c])
    /\ UNCHANGED <<articles, subscribers, now, started, fires, committed,
                   calls, rerunOf, probe>>

\* the same with the default of the setting
WakeUp(c) == WakeUpCap(c, max_articles_per_cycle)

\* ------------------------------------------------------ Telegram commands
\* How one run of a command handler goes: without an exception, with the
\* query or the commit raising, or with the reply inside the try block
\* raising after the store was written.  The reply of the except clause is
\* taken to arrive.
CommandOutcomes == {"ok", "db_error", "reply_error"}

ReplyOr(outcome, text) == IF outcome = "reply_error" THEN "error" ELSE text

\* /start that sets the timestamp again for a subscriber who is active
start_command_effect_Refresh(rows, chat_id, t, outcome) ==
    IF outcome = "db_error"
    THEN [rows |-> rows, reply |-> "error"]
    ELSE IF HasSubscriber(rows, chat_id)
    THEN LET i == SubscriberIndex(rows, chat_id) IN
         [rows |-> [rows EXCEPT ![i].is_active = TRUE,
                                ![i].subscribed_at = t,
                                ![i].unsubscribed_at = NULL_TS],
          reply |-> ReplyOr(outcome, IF rows[i].is_active THEN "already"
                                     ELSE "reactivated")]
    ELSE [rows |-> Append(rows, [chat_id |-> chat_id, is_active |-> TRUE,
                                 subscribed_at |-> t,
                                 unsubscribed_at |-> NULL_TS]),
          reply |-> ReplyOr(outcome, "welcome")]

\* /start that only looks for an active row before it inserts
start_command_effect_Reinsert(rows, chat_id, t, outcome) ==
    IF outcome = "db_error"
    THEN [rows |-> rows, reply |-> "error"]
    ELSE IF /\ HasSubscriber(rows, chat_id)
            /\ rows[SubscriberIndex(rows, chat_id)].is_active
    THEN [rows |-> rows, reply |-> ReplyOr(outcome, "already")]
    ELSE [rows |-> Append(rows, [chat_id |-> chat_id, is_active |-> TRUE,
                                 subscribed_at |-> t,
                                 unsubscribed_at |-> NULL_TS]),
          reply |-> ReplyOr(outcome, "welcome")]

\* /start whose reactivation leaves the unsubscribed timestamp in place
start_command_effect_KeepTimestamp(rows, chat_id, t, outcome) ==
    IF outcome = "db_error"
    THEN [rows |-> rows, reply |-> "error"]
    ELSE IF HasSubscriber(rows, chat_id)
    THEN LET i == SubscriberIndex(rows, chat_id) IN
         IF rows[i].is_active
         THEN [rows |-> rows, reply |-> ReplyOr(outcome, "already")]
         ELSE [rows |-> [rows EXCEPT ![i].is_active = TRUE,
                                     ![i].subscribed_at = t],
               reply |-> ReplyOr(outcome, "reactivated")]
    ELSE [rows |-> Append(rows, [chat_id |-> chat_id, is_active |-> TRUE,
                                 subscribed_at |-> t,
                                 unsubscribed_at |-> NULL_TS]),
          reply |-> ReplyOr(outcome, "welcome")]

\* start_command: the table it leaves and the reply it sends, at time t.
\* A failing query or commit leaves the table as it was.
start_command_effect(rows, chat_id, t, outcome) ==
    IF outcome = "db_error"
    THEN [rows |-> rows, reply |-> "error"]
    ELSE IF HasSubscriber(rows, chat_id)
    THEN LET i == SubscriberIndex(rows, chat_id) IN
         IF rows[i].is_active
         THEN [rows |-> rows, reply |-> ReplyOr(outcome, "already")]
         ELSE [rows |-> [rows EXCEPT ![i].is_active = TRUE,
                                     ![i].subscribed_at = t,
                                     ![i].unsubscribed_at = NULL_TS],
               reply |-> ReplyOr(outcome, "reactivated")]
    ELSE [rows |-> Append(rows, [chat_id |-> chat_id, is_active |-> TRUE,
                                 subscribed_at |-> t,
                                 unsubscribed_at |-> NULL_TS]),
          reply |-> ReplyOr(outcome, "welcome")]

\* /stop that forgets the timestamp
stop_command_effect_NoTimestamp(rows, chat_id, t, outcome) ==
    IF outcome = "db_error"
    THEN [rows |-> rows, reply |-> "error"]
    ELSE IF /\ HasSubscriber(rows, chat_id)
            /\ rows[SubscriberIndex(rows, chat_id)].is_active
    THEN [rows |-> [rows EXCEPT
                      ![SubscriberIndex(rows, chat_id)].is_active = FALSE],
          reply |-> ReplyOr(outcome, "unsubscribed")]
    ELSE [rows |-> rows, reply |-> ReplyOr(outcome, "not_subscribed")]

\* stop_command: the table it leaves and the reply it sends, at time t
stop_command_effect(rows, chat_id, t, outcome) ==
    IF outcome = "db_error"
    THEN [rows |-> rows, reply |-> "error"]
    ELSE IF /\ HasSubscriber(rows, chat_id)
            /\ rows[SubscriberIndex(rows, chat_id)].is_active
    THEN [rows |-> [rows EXCEPT
                      ![SubscriberIndex(rows, chat_id)].is_active = FALSE,
                      ![SubscriberIndex(rows, chat_id)].unsubscribed_at = t],
          reply |-> ReplyOr(outcome, "unsubscribed")]
    ELSE [rows |-> rows, reply |-> ReplyOr(outcome, "not_subscribed")]

\* /start while the agent runs (the reply goes to the user and is not kept)
start_command(chat_id) ==
    /\ started
    /\ running = "none"
    /\ \E o \in CommandOutcomes :
         subscribers' = start_command_effect(subscribers, chat_id, now, o).rows
    /\ UNCHANGED <<articles, now, started, fires, running, pc, fetched, idx,
                   sent_count, notified, loc, committed, calls, lastRun, rerunOf, probe>>

\* /stop while the agent runs
stop_command(chat_id) ==
    /\ started
    /\ running = "none"
    /\ \E o \in CommandOutcomes :
         subscribers' = stop_command_effect(subscribers, chat_id, now, o).rows
    /\ UNCHANGED <<articles, now, started, fires, running, pc, fetched, idx,
                   sent_count, notified, loc, committed, calls, lastRun, rerunOf, probe>>

Next ==
    \/ Start
    \/ IntervalFire
    \/ \E c \in Procs : Fetch(c)
    \/ \E c \in Procs : CheckExisting(c)
    \/ \E c \in Procs : Classify(c)
    \/ \E c \in Procs : CreateArticle(c)
    \/ \E c \in Procs : Summarize(c)
    \/ \E c \in Procs : UpdateSummary(c)
    \/ \E c \in Procs : BroadcastStart(c)
    \/ \E c \in Procs : BroadcastGather(c)
    \/ \E c \in Procs : MarkSent(c)
    \/ \E c \in Procs : Sleep(c)
    \/ \E c \in Procs : WakeUp(c)
    \/ \E ch \in ChatIds : start_command(ch)
    \/ \E ch \in ChatIds : stop_command(ch)

Spec == Init /\ [][Next]_vars

\* ------------------------------------- one cycle, and the daily digest
\* The JSON generate_daily_digest hands over, as it came from the external
\* model: an object with its items, or JSON that is no object.  An item has
\* an id or not, and a headline or not.
Item(id) == [has_id |-> TRUE, id |-> id, has_headline |-> TRUE]
ItemNoId == [has_id |-> FALSE, id |-> 0, has_headline |-> TRUE]
ItemNoHeadline(id) == [has_id |-> TRUE, id |-> id, has_headline |-> FALSE]

DigestObject(items) == [kind |-> "object", items |-> items]

\* the digests handed to send_daily_digest on its own
DigestInputs == {DigestObject(<<Item(1)>>), DigestObject(<<ItemNoHeadline(1)>>)}

\* probe as the record of one digest: the call of send_daily_digest (stage,
\* recipients, the sends that succeeded, the count returned, the ids on the
\* buttons) and what led to it (the rows read, the ids in the prompt, the
\* outcome of the external call, the digest, an exception that escaped)
\* and what followed (the answer to the last button pressed).
NoDigest == [stage |-> "idle", recipients |-> {}, delivered |-> {},
             count |-> 0, keyboard |-> <<>>, selected |-> <<>>,
             passed |-> <<>>, external |-> "none",
             digest |-> [kind |-> "null", items |-> <<>>],
             raised |-> FALSE, detail |-> 0]

\* Building the message raises: digest.get on something that is no object,
\* or item.get('headline')[:20] for an item with an id and no headline.
BuildFails(digest) ==
    \/ digest.kind # "object"
    \/ \E k \in 1..Len(digest.items) :
          digest.items[k].has_id /\ ~digest.items[k].has_headline

\* keyboard: one button "read_{id}" for every item that has an id
RECURSIVE ButtonsOf(_)
ButtonsOf(items) ==
    IF items = <<>> THEN <<>>
    ELSE IF Head(items).has_id
         THEN <<Head(items).id>> \o ButtonsOf(Tail(items))
         ELSE ButtonsOf(Tail(items))

\* send_daily_digest up to its await, as a change of the record p: the
\* active subscribers are read ("to"), the message and its keyboard are
\* built and one send per subscriber is prepared.  No subscriber, a failing
\* query or a failing construction of the message: return 0.
DigestSend(p, digest, to) ==
    IF to = {} \/ BuildFails(digest)
    THEN [p EXCEPT !.stage = "done", !.recipients = {}, !.delivered = {},
                   !.count = 0, !.keyboard = <<>>]
    ELSE [p EXCEPT !.stage = "gather", !.recipients = to, !.delivered = {},
                   !.count = 0, !.keyboard = ButtonsOf(digest.items)]

send_daily_digest(digest) ==
    /\ probe.stage # "gather"
    /\ \E to \in {ActiveSubscribers(subscribers), {}} :
         probe' = DigestSend(NoDigest, digest, to)
    /\ UNCHANGED <<articles, subscribers, now, started, fires, running, pc,
                   fetched, idx, sent_count, notified, loc, committed, calls, lastRun,
                   rerunOf>>

\* results = await asyncio.gather(*tasks, return_exceptions=True) and the
\* count of the results that are not exceptions
send_daily_digest_gather ==
    /\ probe.stage = "gather"
    /\ \E results \in SendResults(probe.recipients) :
         probe' = [probe EXCEPT
                     !.stage = "done",
                     !.delivered = {r \in DOMAIN results : results[r]},
                     !.count = count_not_exception(results)]
    /\ UNCHANGED <<articles, subscribers, now, started, fires, running, pc,
                   fetched, idx, sent_count, notified, loc, committed, calls, lastRun,
                   rerunOf>>

InitCycle == InitMain /\ probe = NoDigest

\* The run started by start(), alone, with every outcome of the external
\* call; subscription commands and digests arrive at any time.
NextCycle ==
    \/ Start
    \/ Fetch("startup")
    \/ CheckExisting("startup")
    \/ ClassifyAmong("startup", GeminiOutcomes)
    \/ CreateArticle("startup")
    \/ SummarizeAmong("startup", SummaryOutcomes)
    \/ UpdateSummary("startup")
    \/ BroadcastStart("startup")
    \/ BroadcastGather("startup")
    \/ MarkSent("startup")
    \/ Sleep("startup")
    \/ WakeUp("startup")
    \/ \E ch \in ChatIds : start_command(ch)
    \/ \E ch \in ChatIds : stop_command(ch)
    \/ \E d \in DigestInputs : send_daily_digest(d)
    \/ send_daily_digest_gather

SpecCycle == InitCycle /\ [][NextCycle]_vars

\* ------------------------------------------------- the daily digest flow
MaxRows == 11             \* largest articles table a digest is made from

DigestLimit == 10
DigestWindowHours == 24

\* Time is counted in hours here.  A stored article: relevant, verified and
\* published i - 1 hours before t, unless its kind says otherwise ("edge":
\* published exactly at the cutoff).
RowKinds == {"unverified", "irrelevant", "old", "edge"}

ArticleRow(kind, t, i) ==
    [is_ai_relevant |-> kind # "irrelevant",
     is_verified |-> kind # "unverified",
     published_at |-> t - (IF kind = "old" THEN DigestWindowHours + 1
                           ELSE IF kind = "edge" THEN DigestWindowHours
                           ELSE i - 1)]

\* the tables explored: up to MaxRows rows, at most one of a special kind
Tables(t) ==
    {[i \in 1..n |-> ArticleRow(IF i = p THEN k ELSE "ok", t, i)] :
        n \in 0..MaxRows, p \in 0..MaxRows, k \in RowKinds}

SubscriberRow(chat_id, active) ==
    [chat_id |-> chat_id, is_active |-> active, subscribed_at |-> 0,
     unsubscribed_at |-> IF active THEN NULL_TS ELSE 0]

SubscriberTables ==
    {<<>>, <<SubscriberRow("c1", TRUE)>>,
     <<SubscriberRow("c1", TRUE), SubscriberRow("c2", FALSE)>>,
     <<SubscriberRow("c1", TRUE), SubscriberRow("c2", TRUE)>>}

\* .order_by(Article.published_at.desc()) on the rows with the given ids
RECURSIVE OrderByPublishedDesc(_, _)
OrderByPublishedDesc(rows, ids) ==
    IF ids = {} THEN <<>>
    ELSE LET latest == {i \in ids : \A j \in ids :
                           rows[j].published_at <= rows[i].published_at}
             first == CHOOSE i \in latest : \A j \in latest : i <= j
         IN <<first>> \o OrderByPublishedDesc(rows, ids \ {first})

\* the query with the is_verified filter left out
get_recent_articles_NoVerified(rows, t, hours) ==
    OrderByPublishedDesc(rows,
        {i \in 1..Len(rows) : /\ rows[i].published_at >= t - hours
                              /\ rows[i].is_ai_relevant})

\* get_recent_articles(db, hours) at time t: the ids of the rows it returns
get_recent_articles(rows, t, hours) ==
    OrderByPublishedDesc(rows,
        {i \in 1..Len(rows) : /\ rows[i].published_at >= t - hours
                              /\ rows[i].is_ai_relevant
                              /\ rows[i].is_verified})

\* articles[:10]: the articles whose id, title and summary go into the prompt
DigestPrompt(selected) == SubSeq(selected, 1, Min(Len(selected), DigestLimit))

Range(f) == {f[k] : k \in DOMAIN f}

\* What the external model can answer to a prompt that lists the ids
\* "passed" (not empty), the table having nrows rows: a transport error,
\* text that is no JSON, JSON that is no object, or an object whose items
\* carry ids of the prompt, another id, or none.
DigestOutcomes(passed, nrows) ==
    {[kind |-> "transport", items |-> <<>>],
     [kind |-> "parse", items |-> <<>>],
     [kind |-> "list", items |-> <<>>]}
    \cup {DigestObject(items) :
            items \in {<<>>, <<ItemNoId>>,
                       <<Item(passed[1])>>,
                       <<Item(passed[1]), Item(passed[Len(passed)])>>,
                       <<Item(passed[1]), ItemNoId>>,
                       <<ItemNoHeadline(passed[1])>>}
                      \cup {<<Item(f)>> : f \in (1..(nrows + 1)) \ Range(passed)}}

NullDigest == [kind |-> "null", items |-> <<>>]

\* generate_daily_digest without its except clause
generate_daily_digest_NoCatch(selected, outcome) ==
    IF selected = <<>> THEN NullDigest
    ELSE IF outcome.kind = "parse" THEN NullDigest
    ELSE IF outcome.kind = "transport"
    THEN [kind |-> "raise", items |-> <<>>]
    ELSE outcome

\* generate_daily_digest: None for no articles (no external call) and for
\* every failure of the call, else the parsed JSON as it came
generate_daily_digest(selected, outcome) ==
    IF selected = <<>> THEN NullDigest
    ELSE IF outcome.kind \in {"transport", "parse"} THEN NullDigest
    ELSE outcome

\* run_daily_digest, called by scripts/trigger_digest.py: the verified,
\* relevant articles of the last 24 hours are read and handed to the digest
\* summarizer; no digest: the flow ends; else the digest is broadcast.  An
\* exception of the summarizer would escape to the caller.
run_daily_digest ==
    /\ probe.stage = "idle"
    /\ LET selected == get_recent_articles(articles, now, DigestWindowHours)
           passed == DigestPrompt(selected)
       IN \E o \in (IF selected = <<>>
                     THEN {[kind |-> "none", items |-> <<>>]}
                     ELSE DigestOutcomes(passed, Len(articles))) :
            LET d == generate_daily_digest(selected, o)
                p == [probe EXCEPT !.selected = selected, !.passed = passed,
                                   !.external = o.kind, !.digest = d]
            IN IF d.kind = "raise"
               THEN probe' = [p EXCEPT !.stage = "done", !.raised = TRUE]
               ELSE IF d.kind = "null"
               THEN probe' = [p EXCEPT !.stage = "done"]
               ELSE \E to \in {ActiveSubscribers(subscribers), {}} :
                      probe' = DigestSend(p, d, to)
    /\ UNCHANGED <<articles, subscribers, now, started, fires, running, pc,
                   fetched, idx, sent_count, notified, loc, committed, calls, lastRun,
                   rerunOf>>

NotFound == 0 - 1     \* the answer "Article not found."

\* send_article_detail: the article with that id, or "Article not found."
send_article_detail(rows, article_id) ==
    IF article_id \in 1..Len(rows) THEN article_id ELSE NotFound

\* button_handler: a recipient of the digest presses its k-th button
button_handler(k) ==
    /\ probe.stage = "done"
    /\ probe.delivered # {}
    /\ k \in 1..Len(probe.keyboard)
    /\ probe' = [probe EXCEPT
                   !.detail = send_article_detail(articles, probe.keyboard[k])]
    /\ UNCHANGED <<articles, subscribers, now, started, fires, running, pc,
                   fetched, idx, sent_count, notified, loc, committed, calls, lastRun,
                   rerunOf>>

InitDigest ==
    /\ now = DigestWindowHours + 1
    /\ articles \in Tables(now)
    /\ subscribers \in SubscriberTables
    /\ InitIdle
    /\ probe = NoDigest

NextDigest ==
    \/ run_daily_digest
    \/ send_daily_digest_gather
    \/ \E k \in 1..2 : button_handler(k)

SpecDigest == InitDigest /\ [][NextDigest]_vars

\* ------------------------------------------- startup and shutdown (main.py)
\* probe as the state of the application's lifespan: whether the shutdown
\* signal was observed, where the lifespan stands ("down", "serving",
\* "stopping_bot" while it awaits telegram.stop(), "stopped" after its
\* finally block, "exited" when the event loop is gone), whether the
\* scheduler is running and whether the bot got started.
NoLifespan == [signal |-> FALSE, stage |-> "down", scheduler |-> FALSE,
               bot |-> "down"]

Alive == probe.stage # "exited"

\* lifespan up to its yield: await agent.start().  The startup run is
\* created and the scheduler started before telegram.start() is awaited;
\* when that raises, the error is logged and the application serves.
lifespan_startup ==
    /\ probe.stage = "down"
    /\ ~started
    /\ started' = TRUE
    /\ pc' = [pc EXCEPT !["startup"] = "fetch"]
    /\ \E bot \in {"up", "failed"} :
         probe' = [probe EXCEPT !.stage = "serving", !.scheduler = TRUE,
                                !.bot = bot]
    /\ UNCHANGED <<articles, subscribers, now, fires, running, fetched, idx,
                   sent_count, notified, loc, committed, calls, lastRun, rerunOf>>

\* the IntervalTrigger fires while the scheduler runs
SchedulerFire ==
    /\ Alive
    /\ probe.scheduler
    /\ IntervalFire

\* The shutdown signal is observed: the finally block of lifespan begins
\* and awaits agent.telegram.stop().
lifespan_shutdown ==
    /\ probe.stage = "serving"
    /\ running = "none"
    /\ probe' = [probe EXCEPT !.signal = TRUE, !.stage = "stopping_bot"]
    /\ UNCHANGED <<articles, subscribers, now, started, fires, running, pc,
                   fetched, idx, sent_count, notified, loc, committed, calls, lastRun,
                   rerunOf>>

\* telegram.stop() is over.  It returned: "if agent.scheduler.running:
\* agent.scheduler.shutdown()".  It raised (a bot that was never started
\* cannot be stopped): the error is logged and the scheduler is left alone.
telegram_stop_returns ==
    /\ probe.stage = "stopping_bot"
    /\ running = "none"
    /\ \/ /\ probe.bot = "up"
          /\ probe' = [probe EXCEPT !.stage = "stopped", !.scheduler = FALSE,
                                    !.bot = "down"]
       \/ probe' = [probe EXCEPT !.stage = "stopped"]
    /\ UNCHANGED <<articles, subscribers, now, started, fires, running, pc,
                   fetched, idx, sent_count, notified, loc, committed, calls, lastRun,
                   rerunOf>>

\* the server is through with its shutdown and the event loop is closed:
\* what is still suspended never runs again
process_exit ==
    /\ probe.stage = "stopped"
    /\ running = "none"
    /\ probe' = [probe EXCEPT !.stage = "exited", !.scheduler = FALSE]
    /\ UNCHANGED <<articles, subscribers, now, started, fires, running, pc,
                   fetched, idx, sent_count, notified, loc, committed, calls, lastRun,
                   rerunOf>>

InitShutdown == InitMain /\ probe = NoLifespan

NextShutdown ==
    \/ lifespan_startup
    \/ SchedulerFire
    \/ lifespan_shutdown
    \/ telegram_stop_returns
    \/ process_exit
    \/ \E c \in Procs : Alive /\ Fetch(c)
    \/ \E c \in Procs : Alive /\ CheckExisting(c)
    \/ \E c \in Procs : Alive /\ Classify(c)
    \/ \E c \in Procs : Alive /\ CreateArticle(c)
    \/ \E c \in Procs : Alive /\ Summarize(c)
    \/ \E c \in Procs : Alive /\ UpdateSummary(c)
    \/ \E c \in Procs : Alive /\ BroadcastStart(c)
    \/ \E c \in Procs : Alive /\ BroadcastGather(c)
    \/ \E c \in Procs : Alive /\ MarkSent(c)
    \/ \E c \in Procs : Alive /\ Sleep(c)
    \/ \E c \in Procs : Alive /\ WakeUp(c)

SpecShutdown == InitShutdown /\ [][NextShutdown]_vars

\* ------------------------------------- one cycle under a configured cap
\* settings.max_articles_per_cycle is read from the environment when the
\* process starts (default 500).  Here "probe" holds the configured value:
\* the default, or a value small enough for the slice to cut the batch.
MaxCap == 2

Caps == (1..MaxCap) \cup {max_articles_per_cycle}

NoBatch(cap) == [max_articles_per_cycle |-> cap]

InitBatch ==
    /\ articles = <<>>
    /\ subscribers \in SubscriberTables
    /\ now = 0
    /\ InitIdle
    /\ probe \in {NoBatch(cap) : cap \in Caps}

\* The run started by start(), alone; every external call returns or raises.
NextBatch ==
    \/ Start
    \/ Fetch("startup")
    \/ CheckExisting("startup")
    \/ Classify("startup")
    \/ CreateArticle("startup")
    \/ Summarize("startup")
    \/ UpdateSummary("startup")
    \/ BroadcastStart("startup")
    \/ BroadcastGather("startup")
    \/ MarkSent("startup")
    \/ Sleep("startup")
    \/ WakeUpCap("startup", probe.max_articles_per_cycle)

\* every await of the cycle completes: the event loop resumes the coroutine
SpecBatch == InitBatch /\ [][NextBatch]_vars /\ WF_vars(NextBatch)

\* ------------------------------------- the job over several firings
\* The startup run and the 'news_pipeline' job with the trigger firing more
\* than once, so that a run of the job that failed is followed by a firing.
MaxJobFires == 2

InitSchedule ==
    /\ articles = <<>>
    /\ subscribers \in {<<>>, <<SubscriberRow("c1", TRUE)>>}
    /\ now = 0
    /\ InitIdle
    /\ probe = NoProbe

NextSchedule ==
    \/ Start
    \/ IntervalFireCap(MaxJobFires)
    \/ \E c \in Procs : Fetch(c)
    \/ \E c \in Procs : CheckExisting(c)
    \/ \E c \in Procs : Classify(c)
    \/ \E c \in Procs : CreateArticle(c)
    \/ \E c \in Procs : Summarize(c)
    \/ \E c \in Procs : UpdateSummary(c)
    \/ \E c \in Procs : BroadcastStart(c)
    \/ \E c \in Procs : BroadcastGather(c)
    \/ \E c \in Procs : MarkSent(c)
    \/ \E c \in Procs : Sleep(c)
    \/ \E c \in Procs : WakeUp(c)

SpecSchedule == InitSchedule /\ [][NextSchedule]_vars

\* ------------------------------------- the subscription commands in time
\* probe as the record of the last command: its number, the handler, the
\* chat it came from and the reply that was sent.
NoCommand == [n |-> 0, command |-> "none", chat_id |-> "none",
              reply |-> "none"]

\* time passes between two commands
Tick ==
    /\ now < MaxClock
    /\ now' = now + 1
    /\ UNCHANGED <<articles, subscribers, started, fires, running, pc,
                   fetched, idx, sent_count, notified, loc, committed, calls, lastRun,
                   rerunOf, probe>>

\* one command with result r (the table it leaves, the reply it sends)
Replied(name, chat_id, r) ==
    /\ running = "none"
    /\ probe.n < MaxCommands
    /\ subscribers' = r.rows
    /\ probe' = [n |-> probe.n + 1, command |-> name, chat_id |-> chat_id,
                 reply |-> r.reply]
    /\ UNCHANGED <<articles, now, started, fires, running, pc, fetched, idx,
                   sent_count, notified, loc, committed, calls, lastRun, rerunOf>>

\* /start with its reply observed
start_command_replied(chat_id) ==
    \E o \in CommandOutcomes :
        Replied("start", chat_id,
                start_command_effect(subscribers, chat_id, now, o))

\* /stop with its reply observed
stop_command_replied(chat_id) ==
    \E o \in CommandOutcomes :
        Replied("stop", chat_id,
                stop_command_effect(subscribers, chat_id, now, o))

InitSubscribers == InitMain /\ probe = NoCommand

NextSubscribers ==
    \/ Tick
    \/ \E ch \in ChatIds : start_command_replied(ch)
    \/ \E ch \in ChatIds : stop_command_replied(ch)

SpecSubscribers == InitSubscribers /\ [][NextSubscribers]_vars

\* ------------------------------------------------ the classifier on its own
\* is_ai_relevant is a function of the item and of what the external call
\* produces: it is applied to every short title and summary.
Texts(n) == UNION {[1..k -> Alphabet] : k \in 0..n}

InitClassifier ==
    /\ InitMain
    /\ probe \in {[NoProbe EXCEPT !.title = t, !.summary = sm, !.outcome = o] :
                    t \in Texts(MaxTitleLen), sm \in Texts(MaxSummaryLen),
                    o \in GeminiOutcomes}

ProbeClassify ==
    /\ ~probe.done
    /\ probe' = [probe EXCEPT
                   !.done = TRUE,
                   !.result = is_ai_relevant([title |-> probe.title,
                                              summary |-> probe.summary],
                                             probe.outcome)]
    /\ UNCHANGED <<articles, subscribers, now, started, fires, running, pc,
                   fetched, idx, sent_count, notified, loc, committed, calls, lastRun,
                   rerunOf>>

NextClassifier == ProbeClassify

SpecClassifier == InitClassifier /\ [][NextClassifier]_vars

\* ================================================================= claims
\* Vocabulary of the claims, stated on the tables and not through the
\* operators of the code.
RowsFor(u) == {i \in 1..Len(articles) : articles[i].url = u}
HasRow(u) == RowsFor(u) # {}
RowOf(u) == articles[CHOOSE i \in RowsFor(u) : TRUE]

\* stages of process_single_article after the record was created
PostCreate == {"summarize", "update", "broadcast", "gather", "mark"}
\* all positions inside one process_single_article call
ItemPcs == {"check", "classify", "create"} \cup PostCreate

\* the call of c found its url in the store and returned at once
Skipped(c) ==
    /\ pc[c] = "sleep"
    /\ loc[c] = InitLoc
    /\ HasRow(Cur(c))

\* C1: the store holds at most one article row per url, and exactly one for
\* every url whose record creation was committed.
C1_OneRowPerUrl ==
    /\ \A i \in 1..Len(articles) : articles[i].url \in URLS
    /\ \A u \in URLS :
         /\ Cardinality(RowsFor(u)) <= 1
         /\ u \in committed => Cardinality(RowsFor(u)) = 1

\* C1 witness: both urls are stored and a run that repeats the previous
\* candidates has just skipped one of them.
C1_Witness ==
    /\ committed = URLS
    /\ \E c \in Procs : rerunOf[c] # NotRerun /\ Skipped(c)

\* C2: a call that finds its url in the store returns at once: no row is
\* added or changed, classifier, summarizer and notifier are not invoked,
\* and the item is reported as not sent.
C2_ExistingUntouched ==
    [][\A c \in Procs :
         (pc[c] = "check" /\ HasRow(Cur(c)) /\ pc'[c] # "check")
         => /\ pc'[c] = "sleep"
            /\ articles' = articles
            /\ committed' = committed
            /\ calls' = calls
            /\ ~loc'[c].was_sent
            /\ ~loc'[c].broadcast
            /\ loc'[c].summary = NoSummary]_vars

\* C2 witness: a call has returned from the duplicate check, the row of its
\* url being one an earlier call has broadcast.
C2_Witness ==
    \E c \in Procs :
        /\ Skipped(c)
        /\ calls.broadcast[Cur(c)] = 1

\* C3 as stated: whatever happened to an earlier attempt, a url is never
\* taken past the duplicate check again, so no url reaches the classifier
\* a second time (read here in states where no other cycle is in progress).
C3_Original ==
    \A c \in Procs :
        (pc[c] = "classify" /\ \A d \in Procs \ {c} : ~Active(d))
        => Cur(c) \notin calls.classified

\* C3 amended: once the record of a url is committed, every later fetch of
\* it is skipped: only a url without a record reaches the classifier, the
\* later stages run only in the call that created the record, each url is
\* broadcast at most once, and a row is flagged as sent only by the call
\* that created it, after a broadcast with a delivery.
C3_CommittedUrlSkipped ==
    /\ [](\A c \in Procs :
            /\ pc[c] \in {"classify", "create"} => ~HasRow(Cur(c))
            /\ pc[c] \in PostCreate =>
                 /\ loc[c].article \in RowsFor(Cur(c))
                 /\ ~articles[loc[c].article].notification_sent)
    /\ [](\A u \in URLS : calls.broadcast[u] <= 1)
    /\ [][\A i \in 1..Len(articles) :
            (~articles[i].notification_sent /\ articles'[i].notification_sent)
            => \E c \in Procs : /\ pc[c] = "mark"
                                /\ loc[c].article = i
                                /\ loc[c].success_count > 0]_vars

\* C3 witness: an article that was broadcast while nobody had subscribed
\* (zero deliveries) is not flagged, and a later call has skipped its url.
C3_Witness ==
    \E c \in Procs :
        /\ Skipped(c)
        /\ subscribers = <<>>
        /\ calls.broadcast[Cur(c)] = 1
        /\ ~RowOf(Cur(c)).notification_sent

\* C4 as stated: a run that repeats the candidates of the run before it, on
\* the store that run left, leaves the set of rows as it found it.
C4_Original ==
    \A c \in Procs : rerunOf[c] # NotRerun => Len(articles) = rerunOf[c]

\* C4 amended: such a run leaves every row it found unchanged, creates a row
\* only for a url that had none, and broadcasts no article that had a row.
C4_RerunKeepsRows ==
    [][\A c \in Procs :
         (rerunOf[c] # NotRerun /\ rerunOf'[c] = rerunOf[c])
         => /\ Len(articles') >= rerunOf[c]
            /\ \A i \in 1..rerunOf[c] :
                 /\ articles'[i] = articles[i]
                 /\ calls'.broadcast[articles[i].url]
                      = calls.broadcast[articles[i].url]
            /\ \A i \in (Len(articles) + 1)..Len(articles') :
                 ~HasRow(articles'[i].url)]_vars

\* C4 witness: the repeating run is over and an article the earlier run
\* flagged as sent is in the store.
C4_Witness ==
    \E c \in Procs :
        /\ rerunOf[c] # NotRerun
        /\ pc[c] = "idle"
        /\ \E i \in 1..rerunOf[c] : articles[i].notification_sent

\* C5: a failure inside one call is caught, the item counts as not sent,
\* and the loop goes on to the next item: it ends only after the last one.
C5_FailureIsolated ==
    [][\A c \in Procs :
         /\ pc[c] \in ItemPcs => pc'[c] \in ItemPcs \cup {"sleep"}
         /\ loc'[c].failed => (pc'[c] = "sleep" /\ ~loc'[c].was_sent)
         /\ pc[c] = "sleep" =>
              /\ pc'[c] \in {"sleep", "sleeping"}
              /\ loc[c].failed => sent_count'[c] = sent_count[c]
         /\ (pc[c] = "sleeping" /\ pc'[c] # "sleeping") =>
              IF idx[c] < Min(Len(fetched[c]), max_articles_per_cycle)
              THEN pc'[c] = "check" /\ idx'[c] = idx[c] + 1
                                    /\ fetched'[c] = fetched[c]
              ELSE pc'[c] = "idle"]_vars

\* C5 witness: the first item of a batch raised before its record was
\* committed, and the second item is being processed.
C5_Witness ==
    \E c \in Procs :
        /\ idx[c] = 2
        /\ pc[c] = "classify"
        /\ ~HasRow(fetched[c][1])

\* a coroutine that has begun its cycle and not yet ended it
InCycle(c) == pc[c] \notin {"idle", "fetch"}

\* C6: at most one pipeline cycle is in progress at any time.
C6_NoOverlap == ~(InCycle("startup") /\ InCycle("job"))

\* C7: the relevance flag, confidence, credibility and verified flag of a
\* row are those the classifier returned and the item carried when the row
\* was created, and no step changes them afterwards.
C7_SnapshotImmutable ==
    /\ [](\A c \in Procs :
            loc[c].article # NoArticle =>
              /\ loc[c].article \in 1..Len(articles)
              /\ articles[loc[c].article].url = Cur(c)
              /\ articles[loc[c].article].is_ai_relevant = loc[c].is_relevant
              /\ articles[loc[c].article].ai_confidence = loc[c].confidence
              /\ articles[loc[c].article].credibility_score
                   = ItemOf(Cur(c)).credibility
              /\ articles[loc[c].article].is_verified
                   <=> ItemOf(Cur(c)).credibility >= 90)
    /\ [][\A i \in 1..Len(articles) :
            /\ i <= Len(articles')
            /\ articles'[i].url = articles[i].url
            /\ articles'[i].is_ai_relevant = articles[i].is_ai_relevant
            /\ articles'[i].ai_confidence = articles[i].ai_confidence
            /\ articles'[i].credibility_score = articles[i].credibility_score
            /\ articles'[i].is_verified = articles[i].is_verified]_vars

\* C7 witness: a relevant article keeps its snapshot although the commit of
\* its summary raised.
C7_Witness ==
    \E c \in Procs :
        /\ pc[c] = "sleep"
        /\ loc[c].failed
        /\ loc[c].article # NoArticle
        /\ articles[loc[c].article].is_ai_relevant
        /\ articles[loc[c].article].ai_confidence = 85
        /\ articles[loc[c].article].summary = NoSummary

\* the call of c has been through broadcast_news and is back in the loop
Broadcasted(c) == pc[c] = "sleep" /\ loc[c].broadcast

\* C8 as stated: after the call, the article is flagged as sent if and only
\* if the broadcast reported at least one delivery.
C8_Original ==
    \A c \in Procs :
        Broadcasted(c) =>
          (articles[loc[c].article].notification_sent
             <=> loc[c].success_count > 0)

\* C8 amended: the article is flagged, with its timestamp, only after a
\* broadcast with at least one delivery, and then whenever the commit of the
\* flag succeeds (the call then reports the item as sent).
C8_FlagIffDelivered ==
    /\ \A i \in 1..Len(articles) :
         articles[i].notification_sent <=> articles[i].sent_at # NULL_TS
    /\ \A c \in Procs :
         Broadcasted(c) =>
           /\ articles[loc[c].article].notification_sent
                <=> (loc[c].success_count > 0 /\ ~loc[c].failed)
           /\ articles[loc[c].article].notification_sent <=> loc[c].was_sent

\* C8 witness: one of two sends failed, and the article is flagged.
C8_Witness ==
    \E c \in Procs :
        /\ Broadcasted(c)
        /\ Cardinality(loc[c].recipients) = 2
        /\ loc[c].success_count = 1
        /\ articles[loc[c].article].notification_sent

\* C9 as stated: when the classifier has rejected a new item, the call
\* leaves a row for it, with relevance false.
C9_Original ==
    [][\A c \in Procs :
         (pc[c] = "create" /\ ~loc[c].is_relevant /\ pc'[c] # "create")
         => \E i \in 1..Len(articles') :
               /\ articles'[i].url = Cur(c)
               /\ ~articles'[i].is_ai_relevant]_vars

\* C9 amended: a rejected item whose record is committed gets a row with
\* relevance false and its call returns there; no call is in a later stage
\* for a rejected item, and a row with relevance false never has a summary,
\* a sent flag, a sent timestamp or a broadcast.
C9_RejectedStops ==
    /\ \A c \in Procs :
         /\ pc[c] \in PostCreate => loc[c].is_relevant
         /\ (loc[c].article # NoArticle /\ ~loc[c].is_relevant) =>
              /\ pc[c] = "sleep"
              /\ ~articles[loc[c].article].is_ai_relevant
    /\ \A i \in 1..Len(articles) :
         ~articles[i].is_ai_relevant =>
           /\ articles[i].summary = NoSummary
           /\ ~articles[i].notification_sent
           /\ articles[i].sent_at = NULL_TS
           /\ articles[i].url \in URLS => calls.broadcast[articles[i].url] = 0

\* C9 witness: the record of an item rejected by the external verdict is
\* committed and the call has returned.
C9_Witness ==
    \E c \in Procs :
        /\ pc[c] = "sleep"
        /\ loc[c].article # NoArticle
        /\ ~loc[c].is_relevant
        /\ loc[c].confidence = 101

\* Case-insensitive match of a keyword at some position of the text that
\* the prefilter reads (title, a space, summary).
EqualIgnoringCase(a, b) ==
    /\ Len(a) = Len(b)
    /\ \A i \in 1..Len(a) : Lower(a[i]) = Lower(b[i])

AllKeywords ==
    {keywords.primary[k] : k \in 1..Len(keywords.primary)}
    \cup {keywords.companies[k] : k \in 1..Len(keywords.companies)}
    \cup {keywords.topics[k] : k \in 1..Len(keywords.topics)}

NoKeywordMatch(title, summary) ==
    LET text == title \o <<" ">> \o summary IN
    \A kw \in AllKeywords :
      \A i \in 1..Len(text) :
        i + Len(kw) - 1 <= Len(text)
          => ~EqualIgnoringCase(SubSeq(text, i, i + Len(kw) - 1), kw)

\* C10 as stated: an item that matches no keyword is rejected without the
\* external call, with confidence 0 and the reason "no keyword match".
C10_Original ==
    (probe.done /\ NoKeywordMatch(probe.title, probe.summary))
    => /\ ~probe.result.gemini
       /\ ~probe.result.is_relevant
       /\ probe.result.confidence = 0
       /\ probe.result.reasoning = "no keyword match"

\* C10 amended: as stated, with the reason the code gives:
\* "No AI keywords found".
C10_PrefilterShortCircuit ==
    (probe.done /\ NoKeywordMatch(probe.title, probe.summary))
    => /\ ~probe.result.gemini
       /\ ~probe.result.is_relevant
       /\ probe.result.confidence = 0
       /\ probe.result.reasoning = "No AI keywords found"

\* C10 witness: an item without keyword was classified while the external
\* call would have accepted it.
C10_Witness ==
    /\ probe.done
    /\ NoKeywordMatch(probe.title, probe.summary)
    /\ Len(probe.title) = MaxTitleLen
    /\ probe.outcome.kind = "verdict"
    /\ probe.outcome.relevant
    /\ probe.outcome.confidence >= ai_relevance_threshold

\* C11: an item that passes the prefilter is accepted exactly when the
\* external verdict says relevant with a confidence of at least the
\* configured threshold; a rejected verdict's confidence and reason are
\* returned as the verdict carried them.
C11_AcceptIffVerdictAndThreshold ==
    (probe.done /\ ~NoKeywordMatch(probe.title, probe.summary))
    => /\ probe.result.is_relevant
            <=> /\ probe.outcome.kind = "verdict"
                /\ probe.outcome.relevant
                /\ probe.outcome.confidence >= ai_relevance_threshold
       /\ (probe.outcome.kind = "verdict" /\ ~probe.result.is_relevant)
            => /\ probe.result.confidence = probe.outcome.confidence
               /\ probe.result.reasoning = probe.outcome.reasoning

\* C11 witness: a verdict "relevant" one point under the threshold was
\* rejected for an item whose keyword match spans title and summary.
C11_Witness ==
    /\ probe.done
    /\ ~NoKeywordMatch(probe.title, probe.summary)
    /\ NoKeywordMatch(probe.title, <<>>)
    /\ probe.outcome.kind = "verdict"
    /\ probe.outcome.relevant
    /\ probe.outcome.confidence = ai_relevance_threshold - 1
    /\ ~probe.result.is_relevant
    /\ probe.result.confidence = ai_relevance_threshold - 1

\* C13: the confidence the classifier returns, and the one stored on every
\* article row, lies in 0..100.
C13_ConfidenceInRange ==
    /\ \A c \in Procs : loc[c].confidence \in 0..100
    /\ \A i \in 1..Len(articles) : articles[i].ai_confidence \in 0..100

\* C14: the verified flag of every row is true exactly when its stored
\* credibility score is at least the configured verification threshold.
C14_VerifiedIffAboveConfigured ==
    \A i \in 1..Len(articles) :
        articles[i].is_verified
          <=> articles[i].credibility_score >= verification_threshold

\* the external call of c's current item failed (no verdict came back)
ExternalFailed(c) == loc[c].external \in {"parse", "transport"}

\* c leaves the record creation of its current item
LeavesCreate(c) == pc[c] = "create" /\ pc'[c] # "create"

\* C12 as stated: a failed external call gives not relevant, confidence 0
\* and a reason that tells parse errors from other errors, and the call
\* still leaves a row recording the rejection.
C12_Original ==
    /\ [](\A c \in Procs :
            ExternalFailed(c) =>
              /\ ~loc[c].is_relevant /\ loc[c].confidence = 0
              /\ loc[c].reasoning = "JSON parse error"
                   <=> loc[c].external = "parse")
    /\ [][\A c \in Procs :
            (ExternalFailed(c) /\ LeavesCreate(c))
            => /\ pc'[c] = "sleep"
               /\ \E i \in 1..Len(articles') :
                    /\ articles'[i].url = Cur(c)
                    /\ ~articles'[i].is_ai_relevant
                    /\ articles'[i].verification_reason = loc[c].reasoning]_vars

\* C12 amended: as stated, the row being created when the commit of the
\* record succeeds; when it raises, no row is left, and in both cases the
\* call returns into the loop, which goes on.
C12_FailureRecordedAsRejection ==
    /\ [](\A c \in Procs :
            ExternalFailed(c) =>
              /\ ~loc[c].is_relevant /\ loc[c].confidence = 0
              /\ loc[c].reasoning = "JSON parse error"
                   <=> loc[c].external = "parse")
    /\ [][\A c \in Procs :
            (ExternalFailed(c) /\ LeavesCreate(c))
            => /\ pc'[c] = "sleep"
               /\ IF loc'[c].failed
                  THEN articles' = articles
                  ELSE /\ Len(articles') = Len(articles) + 1
                       /\ loc'[c].article = Len(articles')
                       /\ articles'[Len(articles')].url = Cur(c)
                       /\ ~articles'[Len(articles')].is_ai_relevant
                       /\ articles'[Len(articles')].ai_confidence = 0
                       /\ articles'[Len(articles')].verification_reason
                            = loc[c].reasoning
                       /\ \A j \in 1..Len(articles) :
                            articles'[j] = articles[j]]_vars

\* C12 witness: the first item of the batch has a row recording a transport
\* error, and the second item is being processed.
C12_Witness ==
    \E c \in Procs :
        /\ idx[c] = 2
        /\ pc[c] \in ItemPcs
        /\ HasRow(fetched[c][1])
        /\ ~RowOf(fetched[c][1]).is_ai_relevant
        /\ RowOf(fetched[c][1]).ai_confidence = 0
        /\ RowOf(fetched[c][1]).verification_reason = "Error: timeout"

\* the chat ids with an active row in the table, now
ActiveIds ==
    {ch \in ChatIds :
       \E i \in 1..Len(subscribers) :
          subscribers[i].chat_id = ch /\ subscribers[i].is_active}

\* c enters broadcast_news and reaches its gather (or its return)
BroadcastBegins(c) == pc[c] = "broadcast" /\ pc'[c] = "gather"

\* a send_daily_digest call begins (and is visible in the record of the call)
DigestBegins == probe.stage # "gather" /\ probe' # probe

\* the tallies of a finished news broadcast and of a finished digest
TallyRight(c) ==
    /\ loc[c].delivered \subseteq loc[c].recipients
    /\ loc[c].success_count = Cardinality(loc[c].delivered)

DigestTallyRight ==
    /\ probe.delivered \subseteq probe.recipients
    /\ probe.count = Cardinality(probe.delivered)

\* C15 as stated: every broadcast, of an item or of a digest, issues a send
\* to every subscriber active at that moment, whatever some sends do the
\* others are made, and the count returned is the number of successes.
C15_Original ==
    /\ [][\A c \in Procs :
            BroadcastBegins(c) => ActiveIds \subseteq loc'[c].recipients]_vars
    /\ [][DigestBegins => ActiveIds \subseteq probe'.recipients]_vars
    /\ [](\A c \in Procs : pc[c] = "mark" => TallyRight(c))
    /\ [](probe.stage = "done" => DigestTallyRight)

\* C15 amended: the sends go to every active subscriber once the active
\* subscribers were read and the message was built; when that raises no
\* send is issued and the count is 0; the rest as stated.
C15_FanOutTally ==
    /\ [][\A c \in Procs :
            BroadcastBegins(c) =>
              \/ loc'[c].recipients = ActiveIds
              \/ loc'[c].recipients = {}]_vars
    /\ [][DigestBegins =>
            \/ probe'.recipients = ActiveIds /\ probe'.stage = "gather"
            \/ /\ probe'.recipients = {} /\ probe'.stage = "done"
               /\ probe'.count = 0 /\ probe'.delivered = {}]_vars
    /\ [](\A c \in Procs : pc[c] = "mark" => TallyRight(c))
    /\ [](probe.stage = "done" => DigestTallyRight)

\* C15 witness: a news broadcast and a digest, each to two subscribers, in
\* each of which one send failed and the other was counted.
C15_Witness ==
    /\ \E c \in Procs :
         /\ pc[c] = "mark"
         /\ loc[c].recipients = ChatIds
         /\ Cardinality(loc[c].delivered) = 1
         /\ loc[c].success_count = 1
    /\ probe.stage = "done"
    /\ probe.recipients = ChatIds
    /\ Cardinality(probe.delivered) = 1
    /\ probe.count = 1

\* C16 as stated: the recipients of a broadcast of the cycle are exactly
\* the subscribers active when it starts; they are fixed at that moment,
\* and nobody else is delivered to.
C16_Original ==
    [][\A c \in Procs :
         /\ BroadcastBegins(c) => loc'[c].recipients = ActiveIds
         /\ (pc[c] = "gather" /\ pc'[c] = "gather")
              => loc'[c].recipients = loc[c].recipients
         /\ (pc[c] = "gather" /\ pc'[c] = "mark")
              => loc'[c].delivered \subseteq loc[c].recipients]_vars

\* C16 amended: the recipients are the subscribers active when the
\* broadcast starts, or nobody when reading them raises; the rest as stated.
C16_RecipientsAtStart ==
    [][\A c \in Procs :
         /\ BroadcastBegins(c) =>
              \/ loc'[c].recipients = ActiveIds
              \/ loc'[c].recipients = {}
         /\ (pc[c] = "gather" /\ pc'[c] = "gather")
              => loc'[c].recipients = loc[c].recipients
         /\ (pc[c] = "gather" /\ pc'[c] = "mark")
              => /\ loc'[c].delivered \subseteq loc[c].recipients
                 /\ loc'[c].recipients = loc[c].recipients]_vars

\* C16 witness: while the sends for the second item of the cycle are under
\* way, their only recipient has unsubscribed and another chat has
\* subscribed: the first is still served, the second has to wait for the
\* next broadcast.
C16_Witness ==
    \E c \in Procs :
        /\ idx[c] = 2
        /\ pc[c] = "gather"
        /\ loc[c].recipients = {"c2"}
        /\ ActiveIds = {"c1"}

\* the row of chat ch in the table, now (0: the identity is absent)
SubRows(ch) == {i \in 1..Len(subscribers) : subscribers[i].chat_id = ch}
SubRow(ch) == IF SubRows(ch) = {} THEN 0 ELSE CHOOSE i \in SubRows(ch) : TRUE

\* this step is command "name" from chat ch
CommandStep(name, ch) ==
    /\ probe'.n = probe.n + 1
    /\ probe'.command = name
    /\ probe'.chat_id = ch

\* C17: /start from an active identity, and /stop from an inactive or
\* absent one, leave the table exactly as it was, each time.
C17_NoOpCommands ==
    [][\A ch \in ChatIds :
         /\ (CommandStep("start", ch) /\ ch \in ActiveIds)
              => subscribers' = subscribers
         /\ (CommandStep("stop", ch) /\ ch \notin ActiveIds)
              => subscribers' = subscribers]_vars

\* C17 witness: the last of several /start of the only subscriber was
\* answered "already subscribed" at the latest instant, and the row still
\* carries the time of the first.
C17_Witness ==
    /\ probe.n = MaxCommands
    /\ probe.command = "start"
    /\ probe.reply = "already"
    /\ now = MaxClock
    /\ Len(subscribers) = 1
    /\ subscribers[1].is_active
    /\ subscribers[1].subscribed_at = 0
    /\ subscribers[1].unsubscribed_at = NULL_TS

\* C18 as stated: /stop from an active subscriber makes its row inactive
\* and sets the unsubscribed timestamp; the /start that follows makes the
\* same row active, clears that timestamp and sets the subscribed timestamp
\* anew; no other row and no other field changes.
C18_Original ==
    [][\A ch \in ChatIds :
         LET i == SubRow(ch) IN
         /\ (CommandStep("stop", ch) /\ ch \in ActiveIds)
              => subscribers' =
                   [subscribers EXCEPT ![i].is_active = FALSE,
                                       ![i].unsubscribed_at = now]
         /\ (CommandStep("start", ch) /\ i # 0 /\ ch \notin ActiveIds)
              => subscribers' =
                   [subscribers EXCEPT ![i].is_active = TRUE,
                                       ![i].unsubscribed_at = NULL_TS,
                                       ![i].subscribed_at = now]]_vars

\* C18 amended: as stated for a command whose query and commit succeed; a
\* command whose store access raises leaves the table as it was and is
\* answered with the error message.
C18_ToggleSameRow ==
    [][\A ch \in ChatIds :
         LET i == SubRow(ch) IN
         /\ (CommandStep("stop", ch) /\ ch \in ActiveIds)
              => \/ subscribers' =
                      [subscribers EXCEPT ![i].is_active = FALSE,
                                          ![i].unsubscribed_at = now]
                 \/ subscribers' = subscribers /\ probe'.reply = "error"
         /\ (CommandStep("start", ch) /\ i # 0 /\ ch \notin ActiveIds)
              => \/ subscribers' =
                      [subscribers EXCEPT ![i].is_active = TRUE,
                                          ![i].unsubscribed_at = NULL_TS,
                                          ![i].subscribed_at = now]
                 \/ subscribers' = subscribers /\ probe'.reply = "error"]_vars

\* C18 witness: subscribed at 0, unsubscribed later and subscribed again at
\* the latest instant: one row, active, no unsubscribed timestamp, the
\* subscribed timestamp that of the last command.
C18_Witness ==
    /\ probe.n = 3
    /\ probe.command = "start"
    /\ probe.reply = "reactivated"
    /\ now = MaxClock
    /\ Len(subscribers) = 1
    /\ subscribers[1].is_active
    /\ subscribers[1].subscribed_at = MaxClock
    /\ subscribers[1].unsubscribed_at = NULL_TS

\* C19: a row is created only by /start from an absent identity, and is
\* created active; no row is ever deleted or given another chat id, and no
\* chat id has two rows.
C19_RowsOnlyAdded ==
    /\ [](\A ch \in ChatIds : Cardinality(SubRows(ch)) <= 1)
    /\ [](\A i \in 1..Len(subscribers) : subscribers[i].chat_id \in ChatIds)
    /\ [][/\ Len(subscribers') >= Len(subscribers)
          /\ \A i \in 1..Len(subscribers) :
               subscribers'[i].chat_id = subscribers[i].chat_id
          /\ Len(subscribers') > Len(subscribers)
               => /\ Len(subscribers') = Len(subscribers) + 1
                  /\ subscribers'[Len(subscribers')].is_active
                  /\ \E ch \in ChatIds :
                       /\ CommandStep("start", ch)
                       /\ SubRow(ch) = 0
                       /\ subscribers'[Len(subscribers')].chat_id = ch]_vars

\* C19 witness: both identities have their row, one of them inactive after
\* having been active and the other active again.
C19_Witness ==
    /\ Len(subscribers) = 2
    /\ probe.n = MaxCommands
    /\ ~subscribers[1].is_active
    /\ subscribers[2].is_active

\* C20: every command is answered, and the answer says what happened to the
\* subscriber: a new row, a reactivation, nothing because already
\* subscribed, an unsubscription, nothing because not subscribed, or an
\* error that left the subscriber as it was.
C20_ReplyTellsWhatHappened ==
    [][\A ch \in ChatIds :
         LET i == SubRow(ch) IN
         /\ CommandStep("start", ch) =>
              /\ probe'.reply \in {"welcome", "reactivated", "already", "error"}
              /\ probe'.reply = "welcome"
                   <=> Len(subscribers') = Len(subscribers) + 1
              /\ probe'.reply = "reactivated"
                   <=> /\ i # 0 /\ ~subscribers[i].is_active
                       /\ subscribers'[i].is_active
              /\ probe'.reply \in {"already", "error"}
                   => subscribers' = subscribers
         /\ CommandStep("stop", ch) =>
              /\ probe'.reply \in {"unsubscribed", "not_subscribed", "error"}
              /\ probe'.reply = "unsubscribed"
                   <=> /\ i # 0 /\ subscribers[i].is_active
                       /\ ~subscribers'[i].is_active
              /\ probe'.reply \in {"not_subscribed", "error"}
                   => subscribers' = subscribers]_vars

\* the summarizer's external call of c's current item failed
SummarizerFailed(c) ==
    loc[c].summarizer \in {"not_object", "parse", "transport"}

\* the fallback for the item with url u: its title and the fixed text
Fallback(u) ==
    <<ItemOf(u).title, "Significant development in the AI field.">>

\* c leaves the summarizer call / the commit of the summary
LeavesSummarize(c) == pc[c] = "summarize" /\ pc'[c] # "summarize"
LeavesUpdate(c) == pc[c] = "update" /\ pc'[c] # "update"

\* C21 as stated: the summarizer call never raises and returns a headline
\* and an explanation, the fallback (title, fixed text) when its external
\* call failed, and the item then reaches the broadcast.
C21_Original ==
    /\ [](\A c \in Procs :
            loc[c].summarizer # "none" =>
              /\ Len(loc[c].summary) = 2
              /\ SummarizerFailed(c) => loc[c].summary = Fallback(Cur(c)))
    /\ [][\A c \in Procs :
            LeavesSummarize(c) =>
              /\ pc'[c] = "update"
              /\ ~loc'[c].failed
              /\ loc'[c].summarizer # "none"]_vars
    /\ [][\A c \in Procs :
            (SummarizerFailed(c) /\ LeavesUpdate(c))
            => pc'[c] = "broadcast"]_vars

\* C21 amended: as stated, the item reaching the broadcast when the commit
\* of the summary succeeds; when that commit raises, the call returns into
\* the loop with the row as it was.
C21_SummarizeNeverFails ==
    /\ [](\A c \in Procs :
            loc[c].summarizer # "none" =>
              /\ Len(loc[c].summary) = 2
              /\ SummarizerFailed(c) => loc[c].summary = Fallback(Cur(c)))
    /\ [][\A c \in Procs :
            LeavesSummarize(c) =>
              /\ pc'[c] = "update"
              /\ ~loc'[c].failed
              /\ loc'[c].summarizer # "none"]_vars
    /\ [][\A c \in Procs :
            (SummarizerFailed(c) /\ LeavesUpdate(c))
            => \/ /\ pc'[c] = "broadcast"
                  /\ articles'[loc[c].article].summary = Fallback(Cur(c))
               \/ /\ pc'[c] = "sleep"
                  /\ loc'[c].failed
                  /\ articles' = articles]_vars

\* C21 witness: the summarizer's call ended in a transport error and the
\* item, with the fallback as its stored summary, is being broadcast.
C21_Witness ==
    \E c \in Procs :
        /\ pc[c] = "gather"
        /\ loc[c].summarizer = "transport"
        /\ loc[c].recipients # {}
        /\ articles[loc[c].article].summary = Fallback(Cur(c))

\* the rows a digest may be built from: verified, relevant and published
\* within the last 24 hours
Qualifying ==
    {i \in 1..Len(articles) : /\ articles[i].is_verified
                              /\ articles[i].is_ai_relevant
                              /\ articles[i].published_at >= now - 24}

\* the digest flow is triggered in this step
DigestTriggered == probe.stage = "idle" /\ probe'.stage # "idle"

\* C22: a digest flow that finds no qualifying article, or whose digest
\* summarizer fails, is over at once: nothing is sent to anybody and no
\* exception reaches the caller.
C22_EmptyOrNullEndsCleanly ==
    [][(/\ DigestTriggered
        /\ \/ Qualifying = {}
           \/ probe'.external \in {"transport", "parse"})
       => /\ probe'.stage = "done"
          /\ ~probe'.raised
          /\ probe'.recipients = {}
          /\ probe'.delivered = {}
          /\ probe'.count = 0
          /\ probe'.keyboard = <<>>]_vars

\* C22 witness: there are qualifying articles and active subscribers, the
\* external call of the digest summarizer failed, and the flow is over
\* without a send.
C22_Witness ==
    /\ probe.stage = "done"
    /\ probe.external = "transport"
    /\ Cardinality(Qualifying) > 1
    /\ ActiveIds = ChatIds
    /\ probe.recipients = {}
    /\ ~probe.raised

\* C23: the articles handed to the digest summarizer are rows that are
\* verified, relevant and published within the last 24 hours, each once,
\* at most 10 of them, and without such a row no digest is made.
C23_DigestFromRecentVerified ==
    probe.stage # "idle" =>
      /\ \A k \in 1..Len(probe.passed) : probe.passed[k] \in Qualifying
      /\ \A k, m \in 1..Len(probe.passed) :
            probe.passed[k] = probe.passed[m] => k = m
      /\ Len(probe.passed) <= 10
      /\ Len(probe.passed) = IF Cardinality(Qualifying) <= 10
                             THEN Cardinality(Qualifying) ELSE 10
      /\ probe.passed = <<>> =>
            probe.external = "none" /\ probe.digest.kind = "null"

\* C23 witness: eleven articles qualify, ten of them were handed over and
\* the digest made from them is being sent.
C23_Witness ==
    /\ probe.stage = "gather"
    /\ Cardinality(Qualifying) = 11
    /\ Len(probe.passed) = 10
    /\ probe.external = "object"

\* C24: every item of a digest that is sent has its button, the button
\* carries the id of an article that was handed to the digest summarizer,
\* and pressing it shows that article.
C24_AffordanceKeyedByPassedArticle ==
    (probe.stage = "gather" \/ probe.delivered # {}) =>
      /\ Len(probe.keyboard) = Len(probe.digest.items)
      /\ \A k \in 1..Len(probe.keyboard) :
            /\ probe.digest.items[k].has_id
            /\ probe.keyboard[k] = probe.digest.items[k].id
            /\ probe.keyboard[k] \in {probe.passed[m] :
                                         m \in 1..Len(probe.passed)}
      /\ probe.detail # 0 =>
            probe.detail \in {probe.passed[m] : m \in 1..Len(probe.passed)}

\* c begins a pipeline cycle in this step
CycleStarts(c) == pc[c] = "idle" /\ pc'[c] # "idle"

\* C25: once the shutdown signal was observed, no pipeline cycle starts,
\* whether the bot had been started or not and however stopping it ends.
C25_NoCycleAfterShutdown ==
    [][\A c \in Procs : probe.signal => ~CycleStarts(c)]_vars

\* C26: once the shutdown signal was observed, a cycle in progress takes
\* the item it is processing to its end, and takes up no further item.
C26_NoFurtherItemAfterShutdown ==
    [][\A c \in Procs :
         probe.signal =>
           /\ pc[c] \in ItemPcs => pc'[c] \in ItemPcs \cup {"sleep"}
           /\ pc[c] = "sleeping" => pc'[c] \in {"sleeping", "idle"}]_vars

\* c prints "Pipeline complete! Sent {sent_count} notifications" in this step
Reports(c) == pc[c] = "sleeping" /\ pc'[c] = "idle"

\* the call of process_single_article that c is leaving has set the flag of
\* the row it created
FlaggedBy(c) ==
    /\ loc[c].article # NoArticle
    /\ articles[loc[c].article].notification_sent

CallReturns(c) == pc[c] = "sleep" /\ pc'[c] = "sleeping"

\* C28: what a cycle keeps of a finished call is the value the call
\* returned and its tally.  A call skipped as a duplicate returns False and
\* leaves the tally alone; a call that failed is told from it, by the value
\* it returns or by a change of the tally.
C28_DuplicatesToldFromFailures ==
    [][\A c \in Procs :
         CallReturns(c) =>
           /\ Skipped(c) =>
                 ~loc[c].was_sent /\ sent_count'[c] = sent_count[c]
           /\ loc[c].failed =>
                 loc[c].was_sent \/ sent_count'[c] # sent_count[c]]_vars

\* C29: every news alert broadcast for an item is for an article whose
\* stored verified flag is true.
C29_BroadcastOnlyVerified ==
    \A c \in Procs :
        (pc[c] \in {"gather", "mark"} /\ loc[c].recipients # {}) =>
            articles[loc[c].article].is_verified

\* the row the call of c created holds the snapshot the call took
SnapshotStored(c) ==
    /\ loc[c].article \in 1..Len(articles)
    /\ LET row == articles[loc[c].article]
       IN  /\ row.url = Cur(c)
           /\ row.is_ai_relevant = loc[c].is_relevant
           /\ row.ai_confidence = loc[c].confidence
           /\ row.verification_reason = loc[c].reasoning
           /\ row.credibility_score = ItemOf(Cur(c)).credibility

\* the row the call of c created holds the summary the call was given
SummaryStored(c) ==
    /\ loc[c].summary # NoSummary
    /\ articles[loc[c].article].summary = loc[c].summary

\* every stored row is still stored after the step, with its snapshot, and
\* with its summary and its sent flag once they were written
CommitsKept ==
    /\ Len(articles') >= Len(articles)
    /\ \A i \in 1..Len(articles) :
         /\ articles'[i].url = articles[i].url
         /\ articles'[i].is_ai_relevant = articles[i].is_ai_relevant
         /\ articles'[i].ai_confidence = articles[i].ai_confidence
         /\ articles'[i].credibility_score = articles[i].credibility_score
         /\ articles'[i].verification_reason = articles[i].verification_reason
         /\ articles[i].summary # NoSummary =>
               articles'[i].summary = articles[i].summary
         /\ articles[i].notification_sent => articles'[i].notification_sent

\* C30: while the summarizer is invoked, and from then to the end of the
\* call, the row with the snapshot is stored; while the broadcast runs, and
\* after it, the summary is stored; the sent flag of a row is written only
\* by the call that created it, after its broadcast has returned; and no
\* step, a failing one included, takes back a row, a snapshot, a summary or
\* a sent flag that was committed.
C30_StagesCommitInOrder ==
    /\ [](\A c \in Procs :
            /\ pc[c] \in PostCreate => SnapshotStored(c)
            /\ pc[c] \in {"broadcast", "gather", "mark"} => SummaryStored(c)
            /\ loc[c].broadcast => SummaryStored(c) /\ SnapshotStored(c))
    /\ [][/\ \A i \in 1..Len(articles) :
               (~articles[i].notification_sent /\ articles'[i].notification_sent)
                  => \E c \in Procs : /\ pc[c] = "mark"
                                      /\ loc[c].article = i
                                      /\ loc[c].delivered # {}
          /\ \A c \in Procs :
               (pc[c] = "summarize" /\ pc'[c] = "update") =>
                   /\ SnapshotStored(c)
                   /\ articles[loc[c].article].summary = NoSummary
          /\ \A c \in Procs :
               (loc'[c].failed /\ ~loc[c].failed) => articles' = articles
          /\ CommitsKept]_vars

\* C30 witness: the commit of the sent flag raised after an item was
\* delivered; its row, its snapshot and its summary are still stored.
C30_Witness ==
    \E c \in Procs :
        /\ pc[c] = "sleep"
        /\ loc[c].failed
        /\ loc[c].delivered # {}
        /\ SnapshotStored(c)
        /\ SummaryStored(c)
        /\ ~articles[loc[c].article].notification_sent

\* the number of items a cycle of c is to attempt
Quota(c) ==
    IF Len(fetched[c]) <= probe.max_articles_per_cycle
    THEN Len(fetched[c]) ELSE probe.max_articles_per_cycle

\* C31: a cycle over a batch of n items takes up item 1 first, then the
\* items in fetch order, one position at a time, never beyond position
\* min(n, cap); the batch and the position do not change inside a call; the
\* cycle reports only at position min(n, cap); all rows it leaves are of
\* the first min(n, cap) items; and every cycle that starts ends.
C31_BoundedBatchInOrder ==
    /\ [](\A c \in Procs :
            /\ pc[c] \in ItemPcs \cup {"sleep", "sleeping"} =>
                  idx[c] \in 1..Quota(c)
            /\ (pc[c] = "idle" /\ lastRun.valid) =>
                  \A u \in URLS :
                     HasRow(u) =>
                        \E k \in 1..Len(lastRun.fetched) :
                           /\ k <= probe.max_articles_per_cycle
                           /\ lastRun.fetched[k] = u)
    /\ [][\A c \in Procs :
            /\ (pc[c] = "fetch" /\ pc'[c] = "check") => idx'[c] = 1
            /\ (pc[c] = "sleeping" /\ pc'[c] = "check") =>
                  idx'[c] = idx[c] + 1 /\ fetched'[c] = fetched[c]
            /\ (pc[c] \in ItemPcs \cup {"sleep"} /\ pc'[c] # "idle") =>
                  idx'[c] = idx[c] /\ fetched'[c] = fetched[c]
            /\ pc'[c] = "check" => pc[c] \in {"fetch", "sleeping", "check"}
            /\ (pc[c] = "sleeping" /\ pc'[c] = "idle") =>
                  idx[c] = Quota(c)]_vars
    /\ \A c \in Procs : (pc[c] # "idle") ~> (pc[c] = "idle")

\* C31 witness: a cycle over two items under a cap of one has ended with
\* the first item attempted and the second left alone.
C31_Witness ==
    /\ started
    /\ pc["startup"] = "idle"
    /\ lastRun.valid
    /\ Len(lastRun.fetched) = 2
    /\ probe.max_articles_per_cycle = 1
    /\ HasRow(lastRun.fetched[1])
    /\ ~HasRow(lastRun.fetched[2])

\* the positions of a call from its existence check to its record creation
CheckToCreate == {"check", "classify", "create"}

\* C32: with the startup run and the interval run interleaved, a call that
\* is between its existence check and its record creation is the one
\* coroutine the event loop runs, and no other coroutine moves or writes a
\* row meanwhile; a row is created only for a url that has none; two calls
\* are never both past the creation of the same url; and broadcast_news is
\* invoked for a url only if it was not invoked for it before.
C32_CheckAndCreateUnseparated ==
    /\ [](\A c \in Procs :
            /\ pc[c] \in CheckToCreate => running = c
            /\ \A d \in Procs \ {c} :
                  (pc[c] \in PostCreate /\ pc[d] \in PostCreate)
                     => Cur(c) # Cur(d))
    /\ [][/\ \A c \in Procs :
               (pc[c] \in CheckToCreate /\ pc'[c] \in CheckToCreate) =>
                  /\ articles' = articles
                  /\ \A d \in Procs \ {c} : pc'[d] = pc[d]
          /\ \A u \in URLS :
               /\ RowsFor(u)' # RowsFor(u) =>
                     RowsFor(u) = {} /\ Cardinality(RowsFor(u)') = 1
               /\ calls'.broadcast[u] # calls.broadcast[u] =>
                     calls.broadcast[u] = 0 /\ calls'.broadcast[u] = 1]_vars

\* C32 witness: both runs are in progress on the same url; one created its
\* record and waits for its broadcast, the other has skipped it.
C32_Witness ==
    \E c, d \in Procs :
        /\ c # d
        /\ pc[c] = "gather"
        /\ loc[c].recipients # {}
        /\ Skipped(d)
        /\ Cur(d) = Cur(c)

\* C33: every row whose notification-sent flag is set is relevant, holds a
\* generated summary (headline and why-it-matters) and a sent timestamp,
\* and a flag that is set stays set.
C33_SentRowsComplete ==
    /\ [](\A i \in 1..Len(articles) :
            articles[i].notification_sent =>
               /\ articles[i].is_ai_relevant
               /\ articles[i].summary # NoSummary
               /\ Len(articles[i].summary) = 2
               /\ articles[i].sent_at # NULL_TS)
    /\ [][\A i \in 1..Len(articles) :
            articles[i].notification_sent =>
               /\ i <= Len(articles')
               /\ articles'[i].notification_sent
               /\ articles'[i].sent_at = articles[i].sent_at]_vars

\* C33 witness: a row flagged as sent is met again by a later call, which
\* skips it.
C33_Witness ==
    \E c \in Procs :
        /\ Skipped(c)
        /\ RowOf(Cur(c)).notification_sent
        /\ RowOf(Cur(c)).sent_at # NULL_TS

\* C34: a subscriber row is active exactly when it has no unsubscribed
\* timestamp.
C34_ActiveIffNoUnsubscribedAt ==
    \A i \in 1..Len(subscribers) :
        subscribers[i].is_active <=>
            subscribers[i].unsubscribed_at = NULL_TS

\* C34 witness: a chat that subscribed, left, came back at instant 1 and
\* has just left again holds one inactive row stamped with the present
\* instant.
C34_Witness ==
    /\ probe.n = 4
    /\ probe.command = "stop"
    /\ probe.reply = "unsubscribed"
    /\ Len(subscribers) = 1
    /\ ~subscribers[1].is_active
    /\ subscribers[1].subscribed_at = 1
    /\ subscribers[1].unsubscribed_at = now
    /\ now = MaxClock

\* the positions of a coroutine whose cycle is in progress
CyclePcs == {"fetch", "sleep", "sleeping"} \cup ItemPcs

\* the next firing of the trigger starts a run of the job
JobStarts == IntervalFireCap(MaxJobFires) /\ pc'["job"] = "fetch"

\* C35: a coroutine is always idle or inside a cycle, never ended by an
\* exception; a fetch that fails ends the cycle at once and a failure
\* inside an item is answered inside the cycle, in both cases with every
\* stored row left as it was; every step that ends a cycle leaves the store
\* alone; and whenever the job is not running and the event loop is free,
\* the next firing of the trigger starts a run of the job.
C35_FailureStaysInsideCycle ==
    /\ [](\A c \in Procs : pc[c] \in {"idle"} \cup CyclePcs)
    /\ []((/\ started
           /\ running = "none"
           /\ fires < MaxJobFires
           /\ pc["job"] \notin CyclePcs) => ENABLED JobStarts)
    /\ [][\A c \in Procs :
            /\ (pc[c] = "fetch" /\ pc'[c] \notin {"fetch", "check"}) =>
                  pc'[c] = "idle" /\ articles' = articles
            /\ (loc'[c].failed /\ ~loc[c].failed) =>
                  pc'[c] = "sleep" /\ articles' = articles
            /\ (pc[c] \in CyclePcs /\ pc'[c] \notin CyclePcs) =>
                  pc'[c] = "idle" /\ articles' = articles]_vars

\* C35 witness: both rows were stored, the last run to end was one whose
\* fetch failed, and the second firing has started the job again.
C35_Witness ==
    /\ fires = 2
    /\ pc["startup"] = "idle"
    /\ pc["job"] = "check"
    /\ ~lastRun.valid
    /\ Len(articles) = 2

====
